---- MODULE Spec2Model ----
(***************************************************************************)
(* CASCADE memory server: the dual-write storage coordinator               *)
(* (server/database.js), the save / recall handlers (server/tools.js) and  *)
(* the sliding-window rate limiter in front of the tool dispatcher         *)
(* (server/index.js).                                                      *)
(*                                                                         *)
(* The specifications share the variables:                                 *)
(*   Spec        - startup, then concurrent save / recall requests against *)
(*                 the truth (disk) and cache (RAM) stores of each layer;  *)
(*   SpecDecay   - the same with the decay engine's sweep;                 *)
(*   SpecQuery   - query_layer and recall over stored rows;                *)
(*   SpecRoute   - the routing of saves to layers;                         *)
(*   SpecStatus  - the storage side with get_status;                       *)
(*   SpecAnalyze - calls of the content analyzer;                          *)
(*   SpecSample  - the decay curve of one record;                          *)
(*   SpecEngine  - sweeps and touches of the decay engine over stores that *)
(*                 can fail; SpecFrame adds saves;                         *)
(*   SpecShutdown - a termination signal while requests are in flight;     *)
(*   SpecFade    - sweeps and touches next to default recalls;             *)
(*   SpecRate    - the dispatcher's admission control over a clock in ms.  *)
(* Every storage call is awaited by the handlers, so each storage call is  *)
(* one atomic step and handlers of different requests interleave between   *)
(* their steps.                                                            *)
(***************************************************************************)
EXTENDS Integers, Sequences, FiniteSets, TLC

VARIABLES
  USE_RAM,           \* database.js:46   a cache directory is configured
  truthFile,         \* per layer: the file under DISK_DB_PATH
  cacheFile,         \* per layer: the file under RAM_DB_PATH
  readConnections,   \* CascadeDatabase.readConnections (has(layer))
  writeConnections,  \* CascadeDatabase.writeConnections (has(layer))
  lastRowid,         \* per write handle (path, layer): its last_insert_rowid()
  copied,            \* per layer: 'Copied <layer> from disk to RAM' was logged
  initIdx,           \* main(): number of layers the startup loop has visited
  req,               \* per request slot: handler position, arguments, response
  faults,            \* number of storage failures injected so far
  now,               \* Date.now()
  globalRequests,    \* RateLimiter.globalRequests
  toolRequests,      \* RateLimiter.toolRequests (an absent key is <<>>)
  nextCleanup,       \* when the cleanup interval of the limiter fires next
  lastCheck,         \* the dispatcher's answer to the latest tool call
  admitted,          \* history: <<tool, time>> of the calls let through in the last window
  sweepRunning,      \* DecayEngine.sweepRunning
  stats,             \* DecayEngine.stats (totalSweeps, totalUpdated)
  swept,             \* history: the <<layer, id>> the latest sweep selected
  ticks,             \* history: the runSweep calls so far, and those that returned at once
  engineLog,         \* history: the layers whose sweepLayer threw or returned in the
                     \* latest sweep, the <<layer, id>> ever selected, the
                     \* touchMemories calls so far and how the latest one ended
  lastIndex,         \* per analyzer and pattern: the lastIndex of the RegExp object
  decisions,         \* history: per input, the decisions analyze returned for it
  calls,             \* history: the <<analyzer, input>> of the analyze calls
  curve,             \* calculateEffectiveImportance of one record, sampled over time
  shutdown           \* the signal handler: the statement it awaits, the statements
                     \* done, the handles closed, the two timers, the exit code

storeVars == <<USE_RAM, truthFile, cacheFile, readConnections, writeConnections,
               lastRowid, copied, initIdx, req, faults>>
rateVars == <<globalRequests, toolRequests, nextCleanup, lastCheck, admitted>>
decayVars == <<sweepRunning, stats, swept, ticks, engineLog>>
analyzerVars == <<lastIndex, decisions, calls>>
auxVars == <<decayVars, analyzerVars, curve, shutdown>>
vars == <<storeVars, now, rateVars, auxVars>>

----------------------------------------------------------------------------
(* Bounds *)

MaxReqs == 2        \* request slots (each serves one tool call)
MaxFaults == 1      \* injected storage failures per behaviour
MaxClock == 2       \* the storage clock stops advancing here
MaxNow == 300000    \* the limiter's clock (ms) stops advancing here
MaxSweeps == 2      \* calls of the decay engine (sweeps, touches) per behaviour
MaxQueries == 1     \* query_layer calls per behaviour
MaxCalls == 3       \* analyze calls per behaviour
MaxSamples == 5     \* times at which one record's decay curve is sampled

Reqs == 1..MaxReqs

----------------------------------------------------------------------------
(* Layers, texts, rows *)

\* Two of the six layers of VALID_LAYERS, in the order of Object.keys.
LayerOrder == <<"episodic", "working">>

MEMORY_LAYERS == {LayerOrder[i] : i \in 1..Len(LayerOrder)}

\* VALID_LAYERS of the validators (database.js:683).
DB_VALID_LAYERS == {"episodic", "semantic", "procedural", "meta", "identity", "working"}

\* The layer arguments of the saves: every layer that has a store here.
LayerArgs == {<<layer>> : layer \in MEMORY_LAYERS}

\* Texts are sequences of characters.  Importance is counted in thousandths.
\* The (content, importance) arguments of a save (metadata.importance 0.9,
\* and the default 0.7).
Saves == {<<<<"a", "b">>, 900>>, <<<<"a">>, 700>>, <<<<" ">>, 700>>}
Queries == {<<"b">>}
Limits == {1, 10}

NoText == <<>>

\* An optional member of a payload is <<>> when absent and <<value>> when
\* present.
Absent == <<>>

\* The words of order_by strings and the layer names, as
\* <<lower case, upper case>>.
CasePairs == {<<"timestamp", "TIMESTAMP">>, <<"importance", "IMPORTANCE">>,
              <<"content", "CONTENT">>, <<"rowid", "ROWID">>,
              <<"asc", "ASC">>, <<"desc", "DESC">>, <<"invalid", "INVALID">>,
              <<";", ";">>,
              <<"core", "CORE">>, <<"temp", "TEMP">>, <<"events", "EVENTS">>,
              <<"episodic", "EPISODIC">>, <<"working", "WORKING">>,
              <<"identity", "IDENTITY">>, <<"bogus", "BOGUS">>}

toLowerCase(word) == (CHOOSE p \in CasePairs : word \in {p[1], p[2]})[1]
toUpperCase(word) == (CHOOSE p \in CasePairs : word \in {p[1], p[2]})[2]

\* A nullable column holds NULL or <<value>>.
NULL == <<>>

\* A row that a previous run of the server left in a truth file.
OldRow == [id |-> 1, timestamp |-> 0, content |-> <<"a", "b">>,
           context |-> NoText, importance |-> 800,
           emotional_intensity |-> 500,
           last_accessed |-> NULL, effective_importance |-> NULL,
           access_count |-> 0]

MissingFile == [exists |-> FALSE, rows |-> {}]

Max(S) == CHOOSE x \in S : \A y \in S : y <= x

\* id INTEGER PRIMARY KEY AUTOINCREMENT; rows are never deleted.
NextId(rows) == IF rows = {} THEN 1 ELSE Max({row.id : row \in rows}) + 1

RECURSIVE trimLeft(_)
trimLeft(s) == IF s # <<>> /\ Head(s) = " " THEN trimLeft(Tail(s)) ELSE s

RECURSIVE trimRight(_)
trimRight(s) ==
  IF s # <<>> /\ s[Len(s)] = " " THEN trimRight(SubSeq(s, 1, Len(s) - 1)) ELSE s

\* String.prototype.trim
trim(s) == trimRight(trimLeft(s))

\* validateContent: the trimmed content, or "invalid" for a ValidationError.
validateContent(content) ==
  IF Len(trim(content)) < 1 THEN "invalid" ELSE trim(content)

LikeSpecial == {"%", "_", "\\"}

\* escapeLikePattern that leaves the string as it is.
escapeLikePatternNone(str) == str

\* escapeLikePattern(str): str.replace(/[%_\\]/g, '\\$&')
RECURSIVE escapeLikePattern(_)
escapeLikePattern(str) ==
  IF str = <<>> THEN <<>>
  ELSE (IF Head(str) \in LikeSpecial THEN <<"\\", Head(str)>> ELSE <<Head(str)>>)
       \o escapeLikePattern(Tail(str))

\* SQLite's LIKE folds ASCII letters.
Fold(c) == IF c = "A" THEN "a" ELSE IF c = "B" THEN "b" ELSE c

\* text LIKE pattern ESCAPE '\'
RECURSIVE Like(_, _)
Like(text, pattern) ==
  IF pattern = <<>> THEN text = <<>>
  ELSE IF Head(pattern) = "%"
    THEN Like(text, Tail(pattern)) \/ (text # <<>> /\ Like(Tail(text), pattern))
  ELSE IF Head(pattern) = "_"
    THEN text # <<>> /\ Like(Tail(text), Tail(pattern))
  ELSE IF Head(pattern) = "\\"
    THEN /\ Len(pattern) >= 2
         /\ text # <<>>
         /\ Head(text) = pattern[2]
         /\ Like(Tail(text), Tail(Tail(pattern)))
  ELSE /\ text # <<>>
       /\ Fold(Head(text)) = Fold(Head(pattern))
       /\ Like(Tail(text), Tail(pattern))

likePattern(query) == <<"%">> \o escapeLikePattern(query) \o <<"%">>

----------------------------------------------------------------------------
(* Requests *)

IdleReq == [pc |-> "idle", tool |-> "none", layer |-> "none",
            content |-> NoText, context |-> NoText, importance |-> 0,
            query |-> NoText, limit |-> 0, timestamp |-> 0,
            idx |-> 0, results |-> <<>>,
            status |-> "pending", code |-> "none", id |-> 0,
            i |-> 0, log |-> <<>>,
            truthWrite |-> "none", cacheWrite |-> "none", insertedId |-> 0,
            readFault |-> FALSE, savedBefore |-> {},
            include_decayed |-> FALSE, options |-> <<>>, startedAt |-> 0,
            seen |-> {}, executed |-> <<>>,
            layerArg |-> <<>>, metadataLayer |-> <<>>,
            health |-> "none", faulted |-> FALSE]

Serving == initIdx = Len(LayerOrder)

\* database.js:57 (DISK_DB_PATH is "disk", RAM_DB_PATH is "ram").
WRITE_PATHS == IF USE_RAM THEN <<"disk", "ram">> ELSE <<"disk">>

Paths == {"disk", "ram"}

\* The file of a layer under a directory.
FileAt(path, layer) == IF path = "disk" THEN truthFile[layer] ELSE cacheFile[layer]

\* The file behind READ_PATH.
ReadFile(layer) == IF USE_RAM THEN cacheFile[layer] ELSE truthFile[layer]

----------------------------------------------------------------------------
(* Error envelope *)

\* handleError: the code and statusCode of the error envelope.
handleError(error) ==
  CASE error = "RateLimitError" -> [code |-> "RATE_LIMIT_EXCEEDED", statusCode |-> 429]
    [] error = "ValidationError" -> [code |-> "VALIDATION_ERROR", statusCode |-> 400]
    [] error = "DatabaseError" -> [code |-> "DATABASE_ERROR", statusCode |-> 500]
    [] error = "UnknownTool" -> [code |-> "UNKNOWN_TOOL", statusCode |-> 400]
    [] OTHER -> [code |-> "INTERNAL_ERROR", statusCode |-> 500]

----------------------------------------------------------------------------
(* CascadeDatabase *)

\* createDbConnection + ensureSchema: opening creates the file and the table.
OpenFile(file) == [exists |-> TRUE, rows |-> file.rows]

\* SeedCache without the copy: the cache file is left as it was found.
SeedCacheNoCopy(layer) == cacheFile[layer]

\* getConnection, lines 286-293: the cache file of the layer after the
\* seeding branch (a byte copy of the truth file when the cache file is
\* missing and the truth file exists).
SeedCache(layer) ==
  IF ~cacheFile[layer].exists /\ truthFile[layer].exists /\ USE_RAM
    THEN truthFile[layer]
    ELSE cacheFile[layer]

\* getConnection(layer) with outcome ok (FALSE: opening the file under
\* READ_PATH fails and a DatabaseError is thrown).  A successful first use
\* also runs initWriteConnections, which opens the primary and secondary
\* files.
GetConnection(layer, ok) ==
  IF readConnections[layer]
    THEN /\ ok
         /\ UNCHANGED <<truthFile, cacheFile, readConnections,
                        writeConnections, copied, faults>>
    ELSE /\ copied' = [copied EXCEPT ![layer] =
                         @ \/ SeedCache(layer) # cacheFile[layer]]
         /\ IF ok
              THEN /\ cacheFile' = IF USE_RAM
                                     THEN [cacheFile EXCEPT ![layer] = OpenFile(SeedCache(layer))]
                                     ELSE cacheFile
                   /\ truthFile' = [truthFile EXCEPT ![layer] = OpenFile(@)]
                   /\ readConnections' = [readConnections EXCEPT ![layer] = TRUE]
                   /\ writeConnections' = [writeConnections EXCEPT ![layer] = TRUE]
                   /\ faults' = faults
              ELSE /\ cacheFile' = IF USE_RAM
                                     THEN [cacheFile EXCEPT ![layer] = SeedCache(layer)]
                                     ELSE cacheFile
                   /\ faults' = faults + 1
                   /\ UNCHANGED <<truthFile, readConnections, writeConnections>>

\* The outcomes getConnection can have in the current state.
ConnOutcomes(layer) ==
  {ok \in BOOLEAN : ok \/ (~readConnections[layer] /\ faults < MaxFaults)}

\* dualWriteOnError without the rethrow for the primary.
dualWriteOnErrorLogOnly(i) == "continue"

\* dualWrite, lines 400-409: what the catch block does for write path i
\* (0 is the primary).
dualWriteOnError(i) == IF i = 0 THEN "throw" ELSE "continue"

\* getLastInsertId: SELECT last_insert_rowid() on writeConns[0], the handle
\* of the primary write path.
getLastInsertId(layer) == lastRowid[WRITE_PATHS[1]][layer]

\* main(), lines 571-593: open every layer before the transport connects.
Startup ==
  /\ initIdx < Len(LayerOrder)
  /\ \E ok \in ConnOutcomes(LayerOrder[initIdx + 1]) :
       GetConnection(LayerOrder[initIdx + 1], ok)
  /\ initIdx' = initIdx + 1
  /\ UNCHANGED <<USE_RAM, lastRowid, req, now, rateVars, auxVars>>

\* The wall clock advances between storage steps.
Tick ==
  /\ Serving
  /\ now < MaxClock
  /\ now' = now + 1
  /\ UNCHANGED <<storeVars, rateVars, auxVars>>

----------------------------------------------------------------------------
(* saveMemory *)

Respond(r, status, code) ==
  [req[r] EXCEPT !.pc = "done", !.status = status, !.code = code]

CanStart(r) ==
  /\ Serving
  /\ req[r].pc = "idle"
  /\ IF r = 1 THEN TRUE ELSE req[r - 1].pc # "idle"

\* validateLayer(layer), database.js lines 879-901, for an argument that is
\* Absent (null, undefined, '') or <<name>> (a name without blanks): Absent,
\* the normalized name, or "invalid" for a ValidationError.
validateLayer(layer) ==
  IF layer = Absent THEN Absent
  ELSE IF toLowerCase(layer[1]) \notin DB_VALID_LAYERS THEN "invalid"
  ELSE <<toLowerCase(layer[1])>>

\* validateMetadata, lines 1030-1130, for the layer member of the metadata
\* (Absent when the metadata have none).
validateMetadata(metadataLayer) == validateLayer(metadataLayer)

\* The keywords of determineLayer in the order of its tests.
LayerKeywords ==
  <<[layer |-> "episodic",
     keywords |-> {"session", "conversation", "today", "happened", "event", "experience"}],
    [layer |-> "semantic",
     keywords |-> {"definition", "concept", "theory", "fact", "knowledge", "meaning"}],
    [layer |-> "procedural",
     keywords |-> {"how to", "process", "step", "procedure", "technique", "workflow"}],
    [layer |-> "meta",
     keywords |-> {"thinking", "awareness", "pattern", "reflection", "learning", "insight"}],
    [layer |-> "identity",
     keywords |-> {"identity", "core values", "strategic focus", "purpose", "principle",
                   "belief"}]>>

\* determineLayer(content, metadata), database.js lines 455-493, for a
\* content in lower case whose words are the units of `includes`.
determineLayer(content, metadataLayer) ==
  IF metadataLayer # Absent /\ metadataLayer[1] \in DB_VALID_LAYERS
    THEN metadataLayer[1]
  ELSE IF \E k \in 1..Len(LayerKeywords) :
            \E i \in 1..Len(content) : content[i] \in LayerKeywords[k].keywords
    THEN LayerKeywords[CHOOSE k \in 1..Len(LayerKeywords) :
           /\ \E i \in 1..Len(content) : content[i] \in LayerKeywords[k].keywords
           /\ \A j \in 1..(k - 1) :
                \A i \in 1..Len(content) : content[i] \notin LayerKeywords[j].keywords].layer
  ELSE "working"

\* saveMemory up to `await dbManager.getConnection(targetLayer)`, for a
\* layer argument out of layers, a (content, importance) out of saves and a
\* metadata.layer out of metadataLayers.
SaveStart(r, layers, saves, metadataLayers) ==
  /\ CanStart(r)
  /\ \E layer \in layers, save \in saves, metadataLayer \in metadataLayers :
       LET content == save[1]
           importance == save[2]
           validatedContent == validateContent(content)
           validatedLayer == validateLayer(layer)
           validatedMetadata == validateMetadata(metadataLayer)
           targetLayer == IF validatedLayer # Absent THEN validatedLayer[1]
                          ELSE determineLayer(validatedContent, validatedMetadata)
           started == [req[r] EXCEPT !.tool = "remember", !.layer = targetLayer,
                                     !.importance = importance,
                                     !.layerArg = layer,
                                     !.metadataLayer = metadataLayer]
       IN IF \/ validatedContent = "invalid"
             \/ validatedLayer = "invalid"
             \/ validatedMetadata = "invalid"
            THEN /\ req' = [req EXCEPT ![r] =
                              [Respond(r, "error", handleError("ValidationError").code) EXCEPT
                                 !.tool = "remember", !.layerArg = layer,
                                 !.content = content,
                                 !.metadataLayer = metadataLayer]]
                 /\ UNCHANGED <<truthFile, cacheFile, readConnections,
                                writeConnections, copied, faults>>
            ELSE \E ok \in ConnOutcomes(targetLayer) :
                   /\ GetConnection(targetLayer, ok)
                   /\ req' = [req EXCEPT ![r] =
                        IF ok
                          THEN [started EXCEPT !.pc = "write", !.i = 0,
                                               !.content = validatedContent,
                                               !.timestamp = now]
                          ELSE [started EXCEPT !.pc = "done", !.status = "error",
                                               !.code = handleError("DatabaseError").code,
                                               !.faulted = TRUE]]
  /\ UNCHANGED <<USE_RAM, lastRowid, initIdx, now, rateVars, auxVars>>

\* The row that the INSERT of saveMemory (lines 362-373) adds (the default
\* emotional_intensity 0.5; event and content hold the same text): it names
\* seven columns, so last_accessed and effective_importance of the migrated table
\* stay NULL and access_count takes its default.
NewRow(r, rows) ==
  [id |-> NextId(rows), timestamp |-> req[r].timestamp,
   content |-> req[r].content, context |-> req[r].context,
   importance |-> req[r].importance, emotional_intensity |-> 500,
   last_accessed |-> NULL, effective_importance |-> NULL, access_count |-> 0]

\* dualWrite, one iteration of the loop of lines 392-410: the INSERT on
\* write path i (0 is the primary, the truth store; 1 the cache).
DualWriteStep(r) ==
  /\ req[r].pc = "write"
  /\ LET layer == req[r].layer
         i == req[r].i
         path == WRITE_PATHS[i + 1]
         row == NewRow(r, FileAt(path, layer).rows)
         next == IF i + 1 < Len(WRITE_PATHS) THEN "write" ELSE "lastid"
         issued == [req[r] EXCEPT !.log = Append(@, path)]
     IN \E ok \in {b \in BOOLEAN : b \/ faults < MaxFaults} :
          IF ok
            THEN /\ truthFile' = IF path = "disk"
                                   THEN [truthFile EXCEPT ![layer].rows = @ \cup {row}]
                                   ELSE truthFile
                 /\ cacheFile' = IF path = "ram"
                                   THEN [cacheFile EXCEPT ![layer].rows = @ \cup {row}]
                                   ELSE cacheFile
                 /\ lastRowid' = [lastRowid EXCEPT ![path][layer] = row.id]
                 /\ req' = [req EXCEPT ![r] =
                      [issued EXCEPT !.pc = next, !.i = i + 1,
                                     !.truthWrite = IF path = "disk" THEN "ok" ELSE @,
                                     !.cacheWrite = IF path = "ram" THEN "ok" ELSE @,
                                     !.insertedId = IF path = "disk" THEN row.id ELSE @]]
                 /\ faults' = faults
            ELSE /\ faults' = faults + 1
                 /\ req' = [req EXCEPT ![r] =
                      [issued EXCEPT
                         !.pc = IF dualWriteOnError(i) = "throw" THEN "done" ELSE next,
                         !.i = i + 1,
                         !.status = IF dualWriteOnError(i) = "throw" THEN "error" ELSE @,
                         !.code = IF dualWriteOnError(i) = "throw"
                                    THEN handleError("DatabaseError").code ELSE @,
                         !.truthWrite = IF path = "disk" THEN "failed" ELSE @,
                         !.cacheWrite = IF path = "ram" THEN "failed" ELSE @,
                         !.faulted = TRUE]]
                 /\ UNCHANGED <<truthFile, cacheFile, lastRowid>>
  /\ UNCHANGED <<USE_RAM, readConnections, writeConnections, copied,
                 initIdx, now, rateVars, auxVars>>

\* saveMemory, lines 376-406: read the id back and answer.  The SELECT runs
\* on the truth store's handle; when it fails, the catch block (lines
\* 407-438) turns the error into a DatabaseError, the INSERT having been
\* executed already.
SaveLastId(r) ==
  /\ req[r].pc = "lastid"
  /\ \E ok \in {b \in BOOLEAN : b \/ faults < MaxFaults} :
       IF ok
         THEN /\ req' = [req EXCEPT ![r] =
                   [Respond(r, "ok", "none") EXCEPT !.id = getLastInsertId(req[r].layer)]]
              /\ faults' = faults
         ELSE /\ req' = [req EXCEPT ![r] =
                   [Respond(r, "error", handleError("DatabaseError").code) EXCEPT
                      !.faulted = TRUE]]
              /\ faults' = faults + 1
  /\ UNCHANGED <<USE_RAM, truthFile, cacheFile, readConnections, writeConnections,
                 lastRowid, copied, initIdx, now, rateVars, auxVars>>

----------------------------------------------------------------------------
(* recallMemories *)

\* The sequences that list every element of the set S once.
RECURSIVE Orderings(_)
Orderings(S) ==
  IF S = {} THEN {<<>>}
  ELSE UNION {{<<x>> \o rest : rest \in Orderings(S \ {x})} : x \in S}

Prefix(seq, n) == SubSeq(seq, 1, IF Len(seq) < n THEN Len(seq) ELSE n)

\* ORDER BY timestamp DESC LIMIT n over a set of rows: every answer the
\* engine may give (rows of equal timestamp come in any order).
OrderByTimestampDesc(rows, n) ==
  {Prefix(seq, n) : seq \in {o \in Orderings(rows) :
      \A i \in 1..(Len(o) - 1) : o[i].timestamp >= o[i + 1].timestamp}}

\* WHERE event LIKE ? ESCAPE '\' OR context LIKE ? ESCAPE '\'
RecallMatches(rows, query) ==
  {row \in rows : \/ Like(row.content, likePattern(query))
                  \/ Like(row.context, likePattern(query))}

\* lines 485-496: the result record built from a row.
ResultOf(layer, row) ==
  [layer |-> layer, id |-> row.id, timestamp |-> row.timestamp,
   content |-> row.content, context |-> row.context,
   importance |-> row.importance]

\* Array.prototype.sort((a, b) => b.timestamp - a.timestamp): stable.
RECURSIVE InsertDesc(_, _)
InsertDesc(x, sorted) ==
  IF sorted = <<>> THEN <<x>>
  ELSE IF Head(sorted).timestamp >= x.timestamp
    THEN <<Head(sorted)>> \o InsertDesc(x, Tail(sorted))
    ELSE <<x>> \o sorted

RECURSIVE SortDesc(_)
SortDesc(seq) ==
  IF seq = <<>> THEN <<>>
  ELSE InsertDesc(seq[Len(seq)], SortDesc(SubSeq(seq, 1, Len(seq) - 1)))

\* line 469: the layers a recall searches.
RecallLayers(layer) == IF layer = "all" THEN LayerOrder ELSE <<layer>>

\* The "recall" case of the dispatcher (index.js:450-461) and recallMemories
\* up to the loop over the layers.  The dispatcher passes include_decayed in
\* a seventh argument; recallMemories declares six parameters.
RecallStart(r, queries, decayedFlags) ==
  /\ CanStart(r)
  /\ \E query \in queries, layer \in MEMORY_LAYERS \cup {"all"}, limit \in Limits,
        include_decayed \in decayedFlags :
       req' = [req EXCEPT ![r] =
         [req[r] EXCEPT !.tool = "recall", !.query = trim(query), !.layer = layer,
                        !.limit = limit, !.pc = "scan", !.idx = 1,
                        !.include_decayed = include_decayed, !.startedAt = now,
                        !.savedBefore = {s \in Reqs : /\ req[s].tool = "remember"
                                                      /\ req[s].status = "ok"}]]
  /\ UNCHANGED <<USE_RAM, truthFile, cacheFile, readConnections, writeConnections,
                 lastRowid, copied, initIdx, faults, now, rateVars, auxVars>>

\* One iteration of the loop of lines 475-497 (getConnection, then the
\* SELECT on the read handle); the last iteration also sorts, truncates and
\* answers (lines 499-522).
RecallScan(r) ==
  /\ req[r].pc = "scan"
  /\ LET layers == RecallLayers(req[r].layer)
         layer == layers[req[r].idx]
     IN \E ok \in ConnOutcomes(layer) :
          /\ GetConnection(layer, ok)
          /\ IF ~ok
               THEN req' = [req EXCEPT ![r] =
                      [Respond(r, "error", handleError("DatabaseError").code) EXCEPT
                                  !.readFault = USE_RAM, !.faulted = TRUE]]
               ELSE \E readOk \in {b \in BOOLEAN : b \/ faults' < MaxFaults} :
                      IF ~readOk
                        THEN req' = [req EXCEPT ![r] =
                               [Respond(r, "error", handleError("DatabaseError").code) EXCEPT
                                  !.readFault = USE_RAM, !.faulted = TRUE]]
                        ELSE \E memories \in OrderByTimestampDesc(
                                   RecallMatches((IF USE_RAM THEN cacheFile'[layer]
                                                  ELSE truthFile'[layer]).rows, req[r].query),
                                   req[r].limit) :
                               LET results == req[r].results \o
                                     [i \in 1..Len(memories) |-> ResultOf(layer, memories[i])]
                                   seen == req[r].seen \cup
                                     {<<layer, row>> : row \in RecallMatches(
                                        (IF USE_RAM THEN cacheFile'[layer]
                                         ELSE truthFile'[layer]).rows, req[r].query)}
                               IN req' = [req EXCEPT ![r] =
                                    IF req[r].idx < Len(layers)
                                      THEN [req[r] EXCEPT !.results = results,
                                                          !.seen = seen,
                                                          !.idx = @ + 1]
                                      ELSE [Respond(r, "ok", "none") EXCEPT
                                              !.seen = seen,
                                              !.results = Prefix(SortDesc(results), req[r].limit)]]
  /\ UNCHANGED <<USE_RAM, lastRowid, initIdx, now, rateVars, auxVars>>

----------------------------------------------------------------------------
(* Query compiler: sanitizeOrderBy, validateFilters, buildWhereClause *)

ALLOWED_COLUMNS == {"id", "timestamp", "content", "event", "context",
                    "emotional_intensity", "importance"}
ALLOWED_ORDER_DIRECTIONS == {"ASC", "DESC"}

\* sanitizeOrderBy that keeps a direction it does not know.
sanitizeOrderByAnyDirection(orderBy) ==
  IF orderBy = Absent \/ orderBy[1] = <<>> THEN <<"timestamp", "DESC">>
  ELSE IF toLowerCase(orderBy[1][1]) \notin ALLOWED_COLUMNS THEN <<"timestamp", "DESC">>
  ELSE <<toLowerCase(orderBy[1][1]),
         IF Len(orderBy[1]) >= 2 THEN toUpperCase(orderBy[1][2]) ELSE "DESC">>

\* sanitizeOrderBy(orderBy), lines 511-527.  The argument is Absent (null,
\* undefined, the empty string) or <<parts>>, the words that
\* orderBy.trim().split(/\s+/) yields (<<>> for a blank string, whose only
\* part is the empty word).  The answer is <<column, direction>>.
sanitizeOrderBy(orderBy) ==
  IF orderBy = Absent THEN <<"timestamp", "DESC">>
  ELSE LET parts == orderBy[1]
           column == IF parts = <<>> THEN "" ELSE toLowerCase(parts[1])
           direction == IF Len(parts) >= 2 THEN toUpperCase(parts[2]) ELSE "DESC"
       IN IF column \notin ALLOWED_COLUMNS THEN <<"timestamp", "DESC">>
          ELSE IF direction \notin ALLOWED_ORDER_DIRECTIONS THEN <<column, "DESC">>
          ELSE <<column, direction>>

\* NUMERIC_LIMITS, in the units of the model (thousandths; clock units:
\* 4102444800 seconds in steps of 200 days).
MAX_IMPORTANCE == 1000
MAX_EMOTIONAL_INTENSITY == 1000
MAX_TIMESTAMP == 41024448 \div (2 * 86400)
MIN_ID == 1
MIN_LIMIT == 1
MAX_LIMIT == 1000
DEFAULT_LIMIT == 10

\* The filter keys validateFilters looks at.
NumericFilters == {"importance_min", "importance_max", "emotional_intensity_min",
                   "emotional_intensity_max", "timestamp_after", "timestamp_before", "id"}
TextFilters == {"content_contains", "context_contains"}
ValidatedFilters == NumericFilters \cup TextFilters

\* validateNumericRange for the filter key: the value is a number within
\* the limits of the key.
inRange(key, value) ==
  CASE key \in {"importance_min", "importance_max"} -> value >= 0 /\ value <= MAX_IMPORTANCE
    [] key \in {"emotional_intensity_min", "emotional_intensity_max"} ->
         value >= 0 /\ value <= MAX_EMOTIONAL_INTENSITY
    [] key \in {"timestamp_after", "timestamp_before"} -> value >= 0 /\ value <= MAX_TIMESTAMP
    [] key = "id" -> value >= MIN_ID
    [] OTHER -> TRUE

\* min > max for a pair of keys that are both present.
crossed(validated, lo, hi) ==
  /\ lo \in DOMAIN validated
  /\ hi \in DOMAIN validated
  /\ validated[lo] > validated[hi]

\* Cross-validation, lines 1328-1355.
crossValidate(validated) ==
  /\ ~crossed(validated, "importance_min", "importance_max")
  /\ ~crossed(validated, "emotional_intensity_min", "emotional_intensity_max")
  /\ ~crossed(validated, "timestamp_after", "timestamp_before")

\* validateFilters(filters), lines 1241-1358: ok is FALSE for a
\* ValidationError; value holds the keys the function copies.
validateFilters(filters) ==
  LET validated == [key \in DOMAIN filters \cap ValidatedFilters |-> filters[key]]
  IN IF \E key \in DOMAIN validated : ~inRange(key, validated[key])
       THEN [ok |-> FALSE, value |-> <<>>]
     ELSE IF ~crossValidate(validated)
       THEN [ok |-> FALSE, value |-> <<>>]
     ELSE [ok |-> TRUE, value |-> validated]

\* The conditions of buildWhereClause in the order the function tests the
\* filters, lines 540-585.
WhereOrder == <<"importance_min", "importance_max", "emotional_intensity_min",
                "emotional_intensity_max", "timestamp_after", "timestamp_before",
                "content_contains", "context_contains", "id">>

conditionOf(key) ==
  CASE key = "importance_min" -> "importance >= ?"
    [] key = "importance_max" -> "importance <= ?"
    [] key = "emotional_intensity_min" -> "emotional_intensity >= ?"
    [] key = "emotional_intensity_max" -> "emotional_intensity <= ?"
    [] key = "timestamp_after" -> "timestamp >= ?"
    [] key = "timestamp_before" -> "timestamp <= ?"
    [] key = "content_contains" -> "(event LIKE ? ESCAPE '\\' OR content LIKE ? ESCAPE '\\')"
    [] key = "context_contains" -> "context LIKE ? ESCAPE '\\'"
    [] key = "id" -> "id = ?"

\* The parameters a filter binds (lines 570-580 for the two searches).
paramsOf(key, value) ==
  CASE key = "content_contains" -> <<likePattern(value), likePattern(value)>>
    [] key = "context_contains" -> <<likePattern(value)>>
    [] OTHER -> <<value>>

\* buildWhereClause(filters) over the filters from position k on:
\* the conditions (before the join with AND) and the parameters.
RECURSIVE buildWhereClause(_, _)
buildWhereClause(filters, k) ==
  IF k > Len(WhereOrder) THEN [conditions |-> <<>>, params |-> <<>>]
  ELSE LET rest == buildWhereClause(filters, k + 1)
           key == WhereOrder[k]
       IN IF key \in DOMAIN filters
            THEN [conditions |-> <<conditionOf(key)>> \o rest.conditions,
                  params |-> paramsOf(key, filters[key]) \o rest.params]
            ELSE rest

\* conditions.join(' AND ')
RECURSIVE joinAnd(_)
joinAnd(conditions) ==
  IF Len(conditions) <= 1 THEN conditions
  ELSE <<Head(conditions), "AND">> \o joinAnd(Tail(conditions))

LegacyCondition == "(event LIKE ? ESCAPE '\\' OR context LIKE ? ESCAPE '\\')"

\* queryStatement that appends the legacy `where` of the payload to the
\* text, as the handler did before the structured filters.
queryStatementRawWhere(options) ==
  LET orderBy == sanitizeOrderBy(options.order_by)
      where == IF options.filters = Absent
                 THEN [conditions |-> <<>>, params |-> <<>>]
                 ELSE buildWhereClause(options.filters[1], 1)
  IN [text |-> <<"SELECT * FROM memories">>
                 \o (IF where.conditions # <<>>
                       THEN <<"WHERE">> \o joinAnd(where.conditions) ELSE <<>>)
                 \o (IF options._deprecated_where_used THEN <<"WHERE", "1=1">> ELSE <<>>)
                 \o <<"ORDER BY", orderBy[1], orderBy[2], "LIMIT ?">>,
      params |-> where.params \o <<options.limit>>]

\* queryLayer, lines 577-610: the statement text (a list of fragments) and
\* its parameters for validated options.  A legacy parameter is
\* [type, value]; only a string in first place adds the legacy search.
queryStatement(options) ==
  LET orderBy == sanitizeOrderBy(options.order_by)
      where == IF options.filters = Absent
                 THEN [conditions |-> <<>>, params |-> <<>>]
                 ELSE buildWhereClause(options.filters[1], 1)
      legacy == /\ options.filters = Absent
                /\ options.params # Absent
                /\ Len(options.params[1]) > 0
                /\ options.params[1][1].type = "string"
  IN [text |-> <<"SELECT * FROM memories">>
                 \o (IF where.conditions # <<>>
                       THEN <<"WHERE">> \o joinAnd(where.conditions) ELSE <<>>)
                 \o (IF legacy THEN <<"WHERE", LegacyCondition>> ELSE <<>>)
                 \o <<"ORDER BY", orderBy[1], orderBy[2], "LIMIT ?">>,
      params |-> where.params
                 \o (IF legacy
                       THEN <<likePattern(options.params[1][1].value),
                              likePattern(options.params[1][1].value)>>
                       ELSE <<>>)
                 \o <<options.limit>>]

\* validateQueryOptions(options), lines 1370-1411, for an options object
\* [limit, order_by, filters, params, where] whose members may be Absent.
validateQueryOptions(options) ==
  LET limitOk == options.limit = Absent \/
                   (options.limit[1] >= MIN_LIMIT /\ options.limit[1] <= MAX_LIMIT)
      filters == IF options.filters = Absent THEN [ok |-> TRUE, value |-> <<>>]
                 ELSE validateFilters(options.filters[1])
  IN IF ~limitOk \/ ~filters.ok THEN [ok |-> FALSE, value |-> <<>>]
     ELSE [ok |-> TRUE,
           value |-> [limit |-> IF options.limit = Absent THEN DEFAULT_LIMIT
                                ELSE options.limit[1],
                      order_by |-> options.order_by,
                      filters |-> IF options.filters = Absent THEN Absent
                                  ELSE <<filters.value>>,
                      params |-> options.params,
                      _deprecated_where_used |-> options.where # Absent]]

----------------------------------------------------------------------------
(* The store's evaluation of a statement *)

\* The characters of the texts in their byte order.
CharOrder == <<" ", "%", "A", "B", "\\", "_", "a", "b">>

Code(c) == CHOOSE k \in 1..Len(CharOrder) : CharOrder[k] = c

\* BINARY collation: s <= t.
RECURSIVE TextLeq(_, _)
TextLeq(s, t) ==
  IF s = <<>> THEN TRUE
  ELSE IF t = <<>> THEN FALSE
  ELSE IF Head(s) = Head(t) THEN TextLeq(Tail(s), Tail(t))
  ELSE Code(Head(s)) < Code(Head(t))

\* x sorts at or before y under ORDER BY column ASC.
ColumnLeq(x, y, column) ==
  CASE column = "id" -> x.id <= y.id
    [] column = "timestamp" -> x.timestamp <= y.timestamp
    [] column = "importance" -> x.importance <= y.importance
    [] column = "emotional_intensity" -> x.emotional_intensity <= y.emotional_intensity
    [] column = "context" -> TextLeq(x.context, y.context)
    [] OTHER -> TextLeq(x.content, y.content)

\* The number of parameters a condition binds.
arity(condition) ==
  IF condition \in {conditionOf("content_contains"), LegacyCondition} THEN 2 ELSE 1

\* A row satisfies one condition under its parameters.
satisfies(row, condition, params) ==
  CASE condition = "importance >= ?" -> row.importance >= params[1]
    [] condition = "importance <= ?" -> row.importance <= params[1]
    [] condition = "emotional_intensity >= ?" -> row.emotional_intensity >= params[1]
    [] condition = "emotional_intensity <= ?" -> row.emotional_intensity <= params[1]
    [] condition = "timestamp >= ?" -> row.timestamp >= params[1]
    [] condition = "timestamp <= ?" -> row.timestamp <= params[1]
    [] condition = "id = ?" -> row.id = params[1]
    [] condition = conditionOf("content_contains") ->
         Like(row.content, params[1]) \/ Like(row.content, params[2])
    [] condition = conditionOf("context_contains") -> Like(row.context, params[1])
    [] condition = LegacyCondition ->
         Like(row.content, params[1]) \/ Like(row.context, params[2])

\* A row satisfies the WHERE part of a statement text.
RECURSIVE whereHolds(_, _, _)
whereHolds(row, text, params) ==
  IF text = <<>> \/ Head(text) = "ORDER BY" THEN TRUE
  ELSE IF Head(text) \in {"SELECT * FROM memories", "WHERE", "AND"}
    THEN whereHolds(row, Tail(text), params)
  ELSE /\ satisfies(row, Head(text), params)
       /\ whereHolds(row, Tail(text),
                     SubSeq(params, arity(Head(text)) + 1, Len(params)))

\* db.allAsync(query, params): every answer the store may give (rows that
\* tie under the ORDER BY come in any order).
executeQuery(rows, statement) ==
  LET text == statement.text
      column == text[Len(text) - 2]
      direction == text[Len(text) - 1]
      limit == statement.params[Len(statement.params)]
      selected == {row \in rows : whereHolds(row, text, statement.params)}
  IN {Prefix(seq, limit) : seq \in {o \in Orderings(selected) :
        \A i \in 1..(Len(o) - 1) :
          IF direction = "ASC" THEN ColumnLeq(o[i], o[i + 1], column)
          ELSE ColumnLeq(o[i + 1], o[i], column)}}

----------------------------------------------------------------------------
(* queryLayer *)

\* lines 582-590: the record built from a row.
QueryResultOf(row) ==
  [id |-> row.id, timestamp |-> row.timestamp, content |-> row.content,
   context |-> row.context, importance |-> row.importance,
   emotional_intensity |-> row.emotional_intensity]

\* The "query_layer" case of the dispatcher (index.js:463-474) and queryLayer
\* (lines 560-620): validate the options, get the connection, build the
\* statement, run it on the read handle and answer.  The dispatcher passes
\* include_decayed in a sixth argument; queryLayer declares five parameters.
\* A query only reads, so the call is one step.
queryLayer(r, payloads, decayedFlags) ==
  /\ CanStart(r)
  /\ Cardinality({s \in Reqs : req[s].tool = "query_layer"}) < MaxQueries
  /\ \E layer \in MEMORY_LAYERS, options \in payloads, include_decayed \in decayedFlags :
       LET started == [req[r] EXCEPT !.tool = "query_layer", !.layer = layer,
                                     !.options = options,
                                     !.include_decayed = include_decayed,
                                     !.startedAt = now,
                                     !.pc = "done"]
           validatedOptions == validateQueryOptions(options)
       IN IF ~validatedOptions.ok
            THEN /\ req' = [req EXCEPT ![r] =
                      [started EXCEPT !.status = "error",
                                      !.code = handleError("ValidationError").code]]
                 /\ UNCHANGED <<truthFile, cacheFile, readConnections,
                                writeConnections, copied, faults>>
            ELSE \E ok \in ConnOutcomes(layer) :
                   /\ GetConnection(layer, ok)
                   /\ IF ~ok
                        THEN req' = [req EXCEPT ![r] =
                               [started EXCEPT !.status = "error",
                                               !.code = handleError("DatabaseError").code,
                                               !.faulted = TRUE]]
                        ELSE LET statement == queryStatement(validatedOptions.value)
                                 rows == (IF USE_RAM THEN cacheFile'[layer]
                                          ELSE truthFile'[layer]).rows
                             IN \E memories \in executeQuery(rows, statement) :
                                  req' = [req EXCEPT ![r] =
                                    [started EXCEPT
                                       !.status = "ok",
                                       !.executed = <<statement>>,
                                       !.seen = {<<layer, row>> : row \in rows},
                                       !.results = [k \in 1..Len(memories) |->
                                                      QueryResultOf(memories[k])]]]
  /\ UNCHANGED <<USE_RAM, lastRowid, initIdx, now, rateVars, auxVars>>

----------------------------------------------------------------------------
(* getStatus *)

\* layerStatus that reports a file it cannot read as connected.
layerStatusOptimistic(exists, ok, readOk) ==
  IF ~exists THEN "missing" ELSE "connected"

\* The status getStatus gives a layer (lines 704-727): the file under
\* CASCADE_DB_PATH exists or not, getConnection answered or threw, the
\* COUNT(*) answered or threw.
layerStatus(exists, ok, readOk) ==
  IF ~exists THEN "missing"
  ELSE IF ok /\ readOk THEN "connected"
  ELSE "error"

\* status.health after a layer: it starts as healthy, and lines 706 and 725
\* set it to degraded.
healthAfter(health, status) ==
  IF status = "connected" THEN health ELSE "degraded"

\* The "get_status" case of the dispatcher (index.js:475-478) and getStatus
\* up to the loop over the layers.
StatusStart(r) ==
  /\ CanStart(r)
  /\ req' = [req EXCEPT ![r] =
       [req[r] EXCEPT !.tool = "get_status", !.pc = "status", !.idx = 1,
                      !.health = "healthy", !.startedAt = now]]
  /\ UNCHANGED <<USE_RAM, truthFile, cacheFile, readConnections, writeConnections,
                 lastRowid, copied, initIdx, faults, now, rateVars, auxVars>>

\* One iteration of the loop of lines 701-728; the last one answers.  The
\* entry keeps, next to the status and the count, whether the file was there
\* and whether the connection and the count answered.
StatusScan(r) ==
  /\ req[r].pc = "status"
  /\ LET layer == LayerOrder[req[r].idx]
         last == req[r].idx = Len(LayerOrder)
         exists == ReadFile(layer).exists
         After(status, count, ok, readOk) ==
           [req[r] EXCEPT
              !.results = Append(@, [layer |-> layer, status |-> status, count |-> count,
                                     existed |-> exists, opened |-> ok,
                                     counted |-> readOk]),
              !.health = healthAfter(@, status),
              !.idx = IF last THEN @ ELSE @ + 1,
              !.pc = IF last THEN "done" ELSE @,
              !.status = IF last THEN "ok" ELSE @]
     IN IF ~exists
          THEN /\ req' = [req EXCEPT ![r] =
                            After(layerStatus(exists, FALSE, FALSE), 0, FALSE, FALSE)]
               /\ UNCHANGED <<truthFile, cacheFile, readConnections,
                              writeConnections, copied, faults>>
          ELSE \E ok \in ConnOutcomes(layer) :
                 /\ GetConnection(layer, ok)
                 /\ \E readOk \in {b \in BOOLEAN : ok /\ (b \/ faults' < MaxFaults)} \cup
                                  {b \in {FALSE} : ~ok} :
                      req' = [req EXCEPT ![r] =
                        After(layerStatus(exists, ok, readOk),
                              IF ok /\ readOk
                                THEN Cardinality((IF USE_RAM THEN cacheFile'[layer]
                                                  ELSE truthFile'[layer]).rows)
                                ELSE 0,
                              ok, readOk)]
  /\ UNCHANGED <<USE_RAM, lastRowid, initIdx, now, rateVars, auxVars>>

----------------------------------------------------------------------------
(* RateLimiter and the tool dispatcher *)

\* RATE_LIMIT_CONFIG.  The window and the retry floor are the program's; the
\* request caps are scaled down (300 global; 60 remember, 120 recall, 60
\* default in the source) so that every cap is reached within the bounds.
GLOBAL_WINDOW_MS == 60000
TOOL_WINDOW_MS == 60000
CLEANUP_INTERVAL_MS == 300000
MinRetryAfterMs == 1000
GLOBAL_MAX_REQUESTS == 4
RememberMax == 2
RecallMax == 3
DEFAULT_TOOL_MAX == 2

\* Tool names a request can carry: two operations, a name outside the
\* vocabulary, and a name that every object inherits from Object.prototype.
Tools == {"remember", "recall", "bogus", "constructor"}

\* Names for which the lookup in TOOL_MAX_REQUESTS finds an inherited member.
InheritedNames == {"constructor"}

\* TOOL_MAX_REQUESTS[toolName] || DEFAULT_TOOL_MAX, for the names whose
\* lookup yields a number or undefined.
toolMax(toolName) ==
  CASE toolName = "remember" -> RememberMax
    [] toolName = "recall" -> RecallMax
    [] OTHER -> DEFAULT_TOOL_MAX

\* overToolMax with > for >=.
overToolMaxStrict(toolName, count) ==
  toolName \notin InheritedNames /\ count > toolMax(toolName)

\* toolCount >= toolMax (line 130).  For an inherited name toolMax is a
\* function object and the comparison is false for every count.
overToolMax(toolName, count) ==
  toolName \notin InheritedNames /\ count >= toolMax(toolName)

\* The steps by which the clock advances between tool calls.
ClockSteps == {59500, 60000}

\* timestamps.filter(ts => ts > cutoff)
Newer(timestamps, cutoff) == SelectSeq(timestamps, LAMBDA ts : ts > cutoff)

\* Math.min over a non-empty list.
MinOf(timestamps) ==
  CHOOSE m \in {timestamps[i] : i \in 1..Len(timestamps)} :
    \A i \in 1..Len(timestamps) : m <= timestamps[i]

\* pruneExpired(now): the two lists afterwards.
prunedGlobal(t) == Newer(globalRequests, t - GLOBAL_WINDOW_MS)
prunedTools(t) == [tool \in Tools |-> Newer(toolRequests[tool], t - TOOL_WINDOW_MS)]

\* clampRetry without the floor.
clampRetryNone(retryAfterMs) == retryAfterMs

\* Math.max(retryAfterMs, 1000)
clampRetry(retryAfterMs) ==
  IF retryAfterMs > MinRetryAfterMs THEN retryAfterMs ELSE MinRetryAfterMs

\* toolTimestamps taken from the list shared by all tools.
toolTimestampsShared(toolName, t) == Newer(prunedGlobal(t), t - TOOL_WINDOW_MS)

\* (this.toolRequests.get(toolName) || []).filter(ts => ts > toolCutoff)
toolTimestamps(toolName, t) == Newer(prunedTools(t)[toolName], t - TOOL_WINDOW_MS)

\* The per-tool count checkLimit compares with toolMax (line 127).
toolCount(toolName, t) == Len(toolTimestamps(toolName, t))

\* checkLimit(toolName) at time t.
checkLimit(toolName, t) ==
  LET globalInWindow == Newer(prunedGlobal(t), t - GLOBAL_WINDOW_MS)
      toolInWindow == toolTimestamps(toolName, t)
  IN IF Len(globalInWindow) >= GLOBAL_MAX_REQUESTS
       THEN [allowed |-> FALSE, reason |-> "global",
             retryAfterMs |-> clampRetry(MinOf(globalInWindow) + GLOBAL_WINDOW_MS - t)]
     ELSE IF overToolMax(toolName, toolCount(toolName, t))
       THEN [allowed |-> FALSE, reason |-> "tool",
             retryAfterMs |-> clampRetry(MinOf(toolInWindow) + TOOL_WINDOW_MS - t)]
     ELSE [allowed |-> TRUE, reason |-> "none", retryAfterMs |-> 0]

NoCheck == [tool |-> "none", at |-> 0, allowed |-> TRUE, reason |-> "none",
            retryAfterMs |-> 0, thrown |-> "none", code |-> "none", statusCode |-> 0]

\* The cases of the dispatcher's switch (index.js lines 437-494).
TOOL_NAMES == {"remember", "recall", "query_layer", "get_status", "get_stats",
               "save_to_layer"}

\* The operations whose case reads no member of `arguments`.
NoArgumentTools == {"get_status", "get_stats"}

\* The tool calls: every name with arguments, and one operation without
\* (the member `arguments` is optional in the request).
ToolCalls == (Tools \X {<<"arguments">>}) \cup {<<"remember", Absent>>}

\* A switch without the default case.
thrownBySwitchNoDefault(toolName, args) ==
  IF toolName \in TOOL_NAMES \ NoArgumentTools /\ args = Absent
    THEN "TypeError" ELSE "none"

\* What the switch throws before any handler runs: the CascadeError of the
\* default case, the TypeError of `args.content` / `args.query` /
\* `args.layer` on undefined arguments, or nothing (the handler is called).
thrownBySwitch(toolName, args) ==
  IF toolName \notin TOOL_NAMES THEN "UnknownTool"
  ELSE IF toolName \notin NoArgumentTools /\ args = Absent THEN "TypeError"
  ELSE "none"

InitLimiter ==
  /\ globalRequests = <<>>
  /\ toolRequests = [tool \in Tools |-> <<>>]
  /\ nextCleanup = CLEANUP_INTERVAL_MS
  /\ lastCheck = NoCheck
  /\ admitted = <<>>

\* A dispatcher that records the request before it looks at the decision.
recordRequestAlways(timestamps, allowed, t) == Append(timestamps, t)

\* rateLimiter.recordRequest(name) (index.js line 434, tools.js lines
\* 146-152), which a denied request does not reach: the denial returns at
\* line 431.
recordRequest(timestamps, allowed, t) ==
  IF allowed THEN Append(timestamps, t) ELSE timestamps

\* The CallToolRequestSchema handler, lines 410-506: checkLimit, then either
\* the rate-limit error envelope, or recordRequest and the switch, whose
\* errors the final catch turns into an error envelope.  With code "none"
\* the tool's handler has been called and the response is the handler's.
Dispatch(toolName, args) ==
  LET check == checkLimit(toolName, now)
      thrown == thrownBySwitch(toolName, args)
  IN /\ IF check.allowed
          THEN /\ globalRequests' = recordRequest(prunedGlobal(now), TRUE, now)
               /\ toolRequests' = [prunedTools(now) EXCEPT
                                     ![toolName] = recordRequest(@, TRUE, now)]
               /\ admitted' = Append(admitted, <<toolName, now>>)
               /\ lastCheck' = [tool |-> toolName, at |-> now, allowed |-> TRUE,
                                reason |-> "none", retryAfterMs |-> 0,
                                thrown |-> thrown,
                                code |-> IF thrown = "none" THEN "none"
                                         ELSE handleError(thrown).code,
                                statusCode |-> IF thrown = "none" THEN 0
                                               ELSE handleError(thrown).statusCode]
          ELSE /\ globalRequests' = recordRequest(prunedGlobal(now), FALSE, now)
               /\ toolRequests' = [prunedTools(now) EXCEPT
                                     ![toolName] = recordRequest(@, FALSE, now)]
               /\ admitted' = admitted
               /\ lastCheck' = [tool |-> toolName, at |-> now, allowed |-> FALSE,
                                reason |-> check.reason,
                                retryAfterMs |-> check.retryAfterMs,
                                thrown |-> "RateLimitError",
                                code |-> handleError("RateLimitError").code,
                                statusCode |-> handleError("RateLimitError").statusCode]
     /\ UNCHANGED <<storeVars, now, nextCleanup, auxVars>>

\* The history keeps what happened in the window (t - W, t].
Recent(history, t) == SelectSeq(history, LAMBDA e : e[2] > t - GLOBAL_WINDOW_MS)

\* Time passes between two tool calls.
AdvanceClock ==
  /\ \E step \in ClockSteps :
       /\ now + step <= MaxNow
       /\ now' = now + step
  /\ admitted' = Recent(admitted, now')
  /\ UNCHANGED <<storeVars, globalRequests, toolRequests, nextCleanup, lastCheck, auxVars>>

\* cleanup(): the interval timer of the constructor, every CLEANUP_INTERVAL_MS.
Cleanup ==
  /\ now >= nextCleanup
  /\ globalRequests' = prunedGlobal(now)
  /\ toolRequests' = prunedTools(now)
  /\ nextCleanup' = nextCleanup + CLEANUP_INTERVAL_MS
  /\ UNCHANGED <<storeVars, now, lastCheck, admitted, auxVars>>

----------------------------------------------------------------------------
(* DecayEngine *)

\* DECAY_CONFIG, in thousandths (base rate 0.01 per day, visibility
\* threshold 0.1, immortal threshold 0.9).  The batch size is scaled down
\* (1000 in the configuration).
BASE_RATE == 10
THRESHOLD == 100
IMMORTAL_THRESHOLD == 900
SWEEP_BATCH_SIZE == 2
SecondsPerDay == 86400

\* One unit of the storage clock, in seconds (200 days).
TickSeconds == 200 * SecondsPerDay

\* 1000 * e^x for x = xMilli / 1000, by the power series up to term k.
RECURSIVE ExpSeries(_, _, _)
ExpSeries(xMilli, k, term) ==
  IF term = 0 \/ k > 20 THEN 0
  ELSE term + ExpSeries(xMilli, k + 1, (term * xMilli) \div (1000 * (k + 1)))

\* 1000 * Math.exp(x): the sign of the exponent is lost.
ExpPos(xMilli) == ExpSeries(xMilli, 0, 1000)

\* 1000 * Math.exp(-x), rounded down.
ExpNeg(xMilli) == (1000 * 1000) \div ExpSeries(xMilli, 0, 1000)

\* calculateEffectiveImportance that never decays.
calculateEffectiveImportanceNoDecay(importance, lastAccessed, t) == importance

\* calculateEffectiveImportance(importance, lastAccessed, now), lines 502-518.
\* `lastAccessed || now` takes now for NULL and for 0.
calculateEffectiveImportance(importance, lastAccessed, t) ==
  LET safeLastAccessed == IF lastAccessed = NULL \/ lastAccessed = <<0>>
                            THEN t ELSE lastAccessed[1]
      daysSinceAccess == ((t - safeLastAccessed) * TickSeconds) \div SecondsPerDay
      xMilli == (BASE_RATE * (1000 - importance) * daysSinceAccess) \div 1000
  IN IF importance >= IMMORTAL_THRESHOLD THEN importance
     ELSE IF daysSinceAccess <= 0 THEN importance
     ELSE (importance * ExpNeg(xMilli)) \div 1000

\* WHERE importance < ? AND last_accessed IS NOT NULL (lines 569-573).
sweepSelectable(row) ==
  row.importance < IMMORTAL_THRESHOLD /\ row.last_accessed # NULL

\* ... LIMIT ?: every batch the engine may return (no ORDER BY).
sweepSelections(rows) ==
  LET eligible == {row \in rows : sweepSelectable(row)}
  IN {batch \in SUBSET eligible :
        Cardinality(batch) =
          (IF Cardinality(eligible) < SWEEP_BATCH_SIZE
             THEN Cardinality(eligible) ELSE SWEEP_BATCH_SIZE)}

\* UPDATE memories SET effective_importance = ? WHERE id = ?, one statement
\* per selected row (lines 580-591), applied to the rows of one store.
applySweep(rows, batch, t) ==
  {IF \E mem \in batch : mem.id = row.id
     THEN LET mem == CHOOSE m \in batch : m.id = row.id
          IN [row EXCEPT !.effective_importance =
                <<calculateEffectiveImportance(mem.importance, mem.last_accessed, t)>>]
     ELSE row : row \in rows}

\* dualWriteBatch(layer, operations): the statements run, in order, on every
\* write path of the layer.
dualWriteBatch(file, path, batch, t) ==
  IF path \in {WRITE_PATHS[k] : k \in 1..Len(WRITE_PATHS)}
    THEN [file EXCEPT !.rows = applySweep(@, batch, t)]
    ELSE file

\* totalUpdated += updated, over the first n layers.
RECURSIVE totalUpdated(_, _)
totalUpdated(batches, n) ==
  IF n = 0 THEN 0
  ELSE Cardinality(batches[LayerOrder[n]]) + totalUpdated(batches, n - 1)

InitDecayEngine ==
  /\ sweepRunning = FALSE
  /\ stats = [totalSweeps |-> 0, totalUpdated |-> 0]
  /\ swept = {}
  /\ ticks = [fired |-> 0, dropped |-> 0]
  /\ engineLog = [failed |-> {}, returned |-> {}, ever |-> {},
                  touches |-> 0, touchFault |-> "none", touchOutcome |-> "none"]

\* No record's curve is being sampled.
InitCurve == curve = [importance |-> 0, lastAccessed |-> 1, values |-> <<>>]

\* No signal has arrived: the sweep timer (DecayEngine.start) and the cleanup
\* timer (the RateLimiter constructor) are set.
InitShutdown ==
  shutdown = [pc |-> "serving", signal |-> "none", done |-> <<>>, closed |-> {},
              sweepInterval |-> TRUE, cleanupInterval |-> TRUE, exitCode |-> NULL]

\* The k-th sample is taken at time k - 1 (in units of TickSeconds).
SampleTime(k) == k - 1

\* One call calculateEffectiveImportance(importance, lastAccessed, now) at
\* the next sample time.
Sample ==
  /\ Len(curve.values) < MaxSamples
  /\ curve' = [curve EXCEPT !.values =
                 Append(@, calculateEffectiveImportance(
                             curve.importance, <<curve.lastAccessed>>,
                             SampleTime(Len(curve.values) + 1)))]
  /\ UNCHANGED <<storeVars, now, rateVars, decayVars, analyzerVars, shutdown>>

\* runSweep without the finally block: the flag stays as the try block found it.
runSweepNoFinally(running) == running

\* finally { this.sweepRunning = false } (lines 557-559).
runSweepFinally(running) == FALSE

\* The position of a layer in Object.keys(MEMORY_LAYERS).
LayerIndex(layer) == CHOOSE k \in 1..Len(LayerOrder) : LayerOrder[k] = layer

\* A loop without the inner try: the first sweepLayer that throws ends it.
sweptLayersUntilThrow(failed) ==
  {layer \in MEMORY_LAYERS :
     \A other \in failed : LayerIndex(layer) <= LayerIndex(other)}

\* The layers on which the loop of lines 535-542 calls sweepLayer when
\* sweepLayer throws for the layers in failed: the catch is inside the loop.
sweptLayers(failed) == MEMORY_LAYERS

\* The sets of layers for which sweepLayer can throw in the current state.
SweepFailures == {failed \in SUBSET MEMORY_LAYERS : Cardinality(failed) <= MaxFaults - faults}

\* The batches sweepLayer can select in a layer: none when the layer is not
\* open, is not reached or its sweepLayer throws.
sweepBatches(layer, failed) ==
  IF readConnections[layer] /\ layer \in sweptLayers(failed) \ failed
    THEN sweepSelections(ReadFile(layer).rows)
    ELSE {{}}

\* runSweep(), lines 523-560: the timer callback (start, lines 640-651).  A
\* call that finds the flag set returns at once (lines 525-528).  Otherwise
\* it sets the flag and runs to completion without yielding, one sweepLayer
\* per layer; a sweepLayer that throws has updated nothing and counts
\* nothing; the finally block clears the flag before any other callback
\* can run.
runSweep ==
  /\ Serving
  /\ ticks.fired + engineLog.touches < MaxSweeps
  /\ IF sweepRunning
       THEN /\ ticks' = [fired |-> ticks.fired + 1, dropped |-> ticks.dropped + 1]
            /\ UNCHANGED <<truthFile, cacheFile, swept, stats, sweepRunning, engineLog, faults>>
       ELSE \E failed \in SweepFailures :
            \E batches \in [MEMORY_LAYERS ->
                              UNION {sweepBatches(l, failed) : l \in MEMORY_LAYERS}] :
              /\ \A layer \in MEMORY_LAYERS : batches[layer] \in sweepBatches(layer, failed)
              /\ truthFile' = [layer \in MEMORY_LAYERS |->
                                 dualWriteBatch(truthFile[layer], "disk", batches[layer], now)]
              /\ cacheFile' = [layer \in MEMORY_LAYERS |->
                                 dualWriteBatch(cacheFile[layer], "ram", batches[layer], now)]
              /\ swept' = UNION {{<<layer, mem.id>> : mem \in batches[layer]} :
                                   layer \in MEMORY_LAYERS}
              /\ stats' = [totalSweeps |-> stats.totalSweeps + 1,
                           totalUpdated |-> stats.totalUpdated
                                              + totalUpdated(batches, Len(LayerOrder))]
              /\ ticks' = [ticks EXCEPT !.fired = @ + 1]
              /\ engineLog' = [engineLog EXCEPT
                                 !.failed = failed \cap sweptLayers(failed),
                                 !.returned = sweptLayers(failed) \ failed,
                                 !.ever = @ \cup swept']
              /\ faults' = faults + Cardinality(failed)
              /\ sweepRunning' = runSweepFinally(TRUE)
  /\ UNCHANGED <<USE_RAM, readConnections, writeConnections, lastRowid, copied,
                 initIdx, req, now, rateVars, analyzerVars, curve, shutdown>>

\* A touch that also resets the stored effective importance.
applyTouchResetting(rows, memoryIds, t) ==
  {IF row.id \in memoryIds
     THEN [row EXCEPT !.last_accessed = <<t>>, !.access_count = @ + 1,
                      !.effective_importance = <<row.importance>>]
     ELSE row : row \in rows}

\* UPDATE memories SET last_accessed = ?, access_count =
\* COALESCE(access_count, 0) + 1 WHERE id = ?, one statement per id (lines
\* 609-612), applied to the rows of one store.
applyTouch(rows, memoryIds, t) ==
  {IF row.id \in memoryIds
     THEN [row EXCEPT !.last_accessed = <<t>>, !.access_count = @ + 1]
     ELSE row : row \in rows}

\* A catch block that throws the error again.
touchMemoriesRethrow(error) == "thrown"

\* catch (error) { this.logger?.error(...) } (lines 616-618).
touchMemoriesOnError(error) == "logged"

\* The points at which the batch of a touch can fail: before the truth
\* store is updated, or after it and before the cache is.
TouchFaults ==
  {"none"} \cup (IF faults < MaxFaults
                   THEN {"truth"} \cup (IF USE_RAM THEN {"cache"} ELSE {})
                   ELSE {})

\* touchMemories(layer, memoryIds), lines 605-619: it returns at once for an
\* empty list (line 606); otherwise it runs the batch synchronously inside
\* the try block.
touchMemories(layer, memoryIds) ==
  /\ Serving
  /\ readConnections[layer]
  /\ ticks.fired + engineLog.touches < MaxSweeps
  /\ memoryIds # {}
  /\ \E fault \in TouchFaults :
       /\ truthFile' = IF fault = "truth" THEN truthFile
                       ELSE [truthFile EXCEPT ![layer].rows = applyTouch(@, memoryIds, now)]
       /\ cacheFile' = IF fault = "none" /\ USE_RAM
                         THEN [cacheFile EXCEPT ![layer].rows = applyTouch(@, memoryIds, now)]
                         ELSE cacheFile
       /\ faults' = IF fault = "none" THEN faults ELSE faults + 1
       /\ engineLog' = [engineLog EXCEPT
                          !.touches = @ + 1,
                          !.touchFault = fault,
                          !.touchOutcome = IF fault = "none" THEN "returned"
                                           ELSE touchMemoriesOnError(fault)]
  /\ UNCHANGED <<USE_RAM, readConnections, writeConnections, lastRowid, copied,
                 initIdx, req, now, rateVars, sweepRunning, stats, swept, ticks,
                 analyzerVars, curve, shutdown>>

----------------------------------------------------------------------------
(* ContentAnalyzer *)

\* A content is a sequence of words; a pattern is [words, weight,
\* signalName], the alternatives of its regular expression, its weight in
\* thousandths and its signal.  Some of the patterns of each layer.
identityPatterns ==
  <<[words |-> {"love", "feeling"}, weight |-> 900, signalName |-> "emotional_content"],
    [words |-> {"!"}, weight |-> 600, signalName |-> "emotional_punctuation"],
    [words |-> {"amazing"}, weight |-> 800, signalName |-> "peak_emotion"]>>
episodicPatterns ==
  <<[words |-> {"today", "yesterday"}, weight |-> 900, signalName |-> "temporal_recent"],
    [words |-> {"then", "next"}, weight |-> 700, signalName |-> "sequence"]>>
semanticPatterns ==
  <<[words |-> {"api", "server"}, weight |-> 750, signalName |-> "technical_term"],
    [words |-> {"python", "sql"}, weight |-> 800, signalName |-> "programming_language"],
    [words |-> {"cache", "index"}, weight |-> 850, signalName |-> "infrastructure_technical"],
    [words |-> {"node", "graph"}, weight |-> 850, signalName |-> "advanced_technical"]>>
proceduralPatterns ==
  <<[words |-> {"how to"}, weight |-> 950, signalName |-> "how_to"],
    [words |-> {"then", "next"}, weight |-> 800, signalName |-> "sequence_step"],
    [words |-> {"function"}, weight |-> 900, signalName |-> "code_syntax"]>>
metaPatterns ==
  <<[words |-> {"insight"}, weight |-> 950, signalName |-> "insight"]>>
workingPatterns ==
  <<[words |-> {"todo", "task"}, weight |-> 800, signalName |-> "task"]>>

\* The layers in the order analyze fills layerScores, with their patterns.
LayerPatterns ==
  <<[layer |-> "identity", patterns |-> identityPatterns],
    [layer |-> "episodic", patterns |-> episodicPatterns],
    [layer |-> "semantic", patterns |-> semanticPatterns],
    [layer |-> "procedural", patterns |-> proceduralPatterns],
    [layer |-> "meta", patterns |-> metaPatterns],
    [layer |-> "working", patterns |-> workingPatterns]>>

SignalNames ==
  UNION {{LayerPatterns[k].patterns[i].signalName : i \in 1..Len(LayerPatterns[k].patterns)} :
           k \in 1..Len(LayerPatterns)}

VALID_LAYERS == {LayerPatterns[k].layer : k \in 1..Len(LayerPatterns)}

\* LAYER_ALIASES, lines 18-34.
LAYER_ALIASES ==
  {<<"core", "identity">>, <<"self", "identity">>, <<"values", "identity">>,
   <<"temp", "working">>, <<"scratch", "working">>, <<"wip", "working">>,
   <<"facts", "semantic">>, <<"knowledge", "semantic">>,
   <<"skills", "procedural">>, <<"howto", "procedural">>, <<"how-to", "procedural">>,
   <<"insights", "meta">>, <<"reasoning", "meta">>,
   <<"events", "episodic">>, <<"conversations", "episodic">>}

\* resolveAlias that knows no alias.
resolveAliasNone(name) == name

\* LAYER_ALIASES[name] || name
resolveAlias(name) ==
  IF \E alias \in LAYER_ALIASES : alias[1] = name
    THEN (CHOOSE alias \in LAYER_ALIASES : alias[1] = name)[2]
    ELSE name

\* The two analyzers of a process: the one determineLayer keeps and one made
\* by createContentAnalyzer.
Analyzers == {"determineLayer._analyzer", "createContentAnalyzer()"}

Lesser(a, b) == IF a < b THEN a ELSE b

RECURSIVE SumScores(_)
SumScores(signals) ==
  IF signals = {} THEN 0
  ELSE LET signal == CHOOSE x \in signals : TRUE
       IN signal[2] + SumScores(signals \ {signal})

\* content.match(pattern) of a global pattern: the positions of all the
\* matches, whatever pattern.lastIndex is.
matchAll(content, pattern) ==
  {k \in 1..Len(content) : content[k] \in pattern.words}

\* weight * (1 + 0.1 * Math.min(matches.length - 1, 5))
matchScore(weight, matches) == (weight * (10 + Lesser(matches - 1, 5))) \div 10

\* _scorePatterns that scores with pattern.exec(content) and leaves
\* pattern.lastIndex alone: one match, looked for from lastIndex on, which
\* moves lastIndex behind the match (to 0 when there is none).
_scorePatternsExec(analyzer, content, patterns) ==
  LET found(k) == {i \in matchAll(content, patterns[k]) :
                     i > lastIndex[analyzer][patterns[k].signalName]}
      signals == {<<patterns[k].signalName, matchScore(patterns[k].weight, 1)>> :
                    k \in {i \in 1..Len(patterns) : found(i) # {}}}
  IN [totalScore |-> SumScores(signals), signals |-> signals,
      lastIndex |-> {<<patterns[k].signalName,
                       IF found(k) = {} THEN 0
                       ELSE CHOOSE i \in found(k) : \A j \in found(k) : i <= j>> :
                       k \in 1..Len(patterns)}]

\* _scorePatterns(content, patterns), lines 311-329, on an analyzer: the
\* total score, the signals (<<signalName, matchScore>>) and the lastIndex
\* it leaves in each pattern (<<signalName, lastIndex>>): line 317 sets it
\* to 0 and String.prototype.match leaves it at 0.
_scorePatterns(analyzer, content, patterns) ==
  LET matches(k) == Cardinality(matchAll(content, patterns[k]))
      signals == {<<patterns[k].signalName, matchScore(patterns[k].weight, matches(k))>> :
                    k \in {i \in 1..Len(patterns) : matches(i) > 0}}
  IN [totalScore |-> SumScores(signals), signals |-> signals,
      lastIndex |-> {<<patterns[k].signalName, 0>> : k \in 1..Len(patterns)}]

\* The signal names of a signals object.
Names(signals) == {signal[1] : signal \in signals}

\* _calculateEmotionalIntensity, lines 338-362 (the contents hold no word in
\* capitals).
_calculateEmotionalIntensity(content, identitySignals) ==
  LET emotionalSignals == {"emotional_content", "peak_emotion", "gratitude",
                           "emotional_punctuation"}
      exclaimCount == Cardinality({k \in 1..Len(content) : content[k] = "!"})
  IN Lesser(1000, 500 + 100 * Cardinality(emotionalSignals \cap Names(identitySignals))
                      + Lesser(exclaimCount * 50, 200))

\* _calculateTechnicalDensity, lines 372-395 (the contents hold no camelCase
\* or snake_case word).
_calculateTechnicalDensity(content, semanticSignals, proceduralSignals) ==
  LET techSignals == {"technical_term", "programming_language",
                      "infrastructure_technical", "advanced_technical", "code_syntax"}
  IN Lesser(1000, 150 * Cardinality(techSignals \cap
                          (Names(semanticSignals) \cup Names(proceduralSignals)))
                  + (IF \E k \in 1..Len(content) : content[k] \in {"{", "}", ";"}
                       THEN 100 ELSE 0))

\* lines 271-282: the first layer with the highest positive score, or
\* 'working' with no signals.
RECURSIVE bestOf(_, _, _)
bestOf(scores, k, best) ==
  IF k > Len(scores) THEN best
  ELSE bestOf(scores, k + 1,
              IF scores[k].score > best.score
                THEN [layer |-> LayerPatterns[k].layer, score |-> scores[k].score,
                      signals |-> scores[k].signals]
                ELSE best)

\* lines 284-293: the confidence from the margin of the best score over the
\* second best.
confidenceOf(scores) ==
  LET top == CHOOSE k \in 1..Len(scores) : \A j \in 1..Len(scores) : scores[j].score <= scores[k].score
      second == CHOOSE k \in (1..Len(scores)) \ {top} :
                  \A j \in (1..Len(scores)) \ {top} : scores[j].score <= scores[k].score
  IN IF scores[top].score > 0
       THEN Lesser(950, 500 + (500 * (scores[top].score - scores[second].score))
                                \div scores[top].score)
       ELSE 500

\* analyze(content, metadata), lines 202-302, on an analyzer: the decision
\* and the lastIndex of every pattern of the analyzer afterwards.  metadata
\* is Absent (no layer member) or <<layer>>.
analyze(analyzer, content, metadata) ==
  IF metadata # Absent /\ resolveAlias(toLowerCase(metadata[1])) \in VALID_LAYERS
    THEN [decision |-> [layer |-> resolveAlias(toLowerCase(metadata[1])),
                        confidence |-> 1000,
                        signals |-> {<<"explicit_override", 1000>>},
                        emotional_intensity |-> 500, technical_density |-> 0],
          lastIndex |-> lastIndex[analyzer]]
    ELSE
      LET scored == [k \in 1..Len(LayerPatterns) |->
                       _scorePatterns(analyzer, content, LayerPatterns[k].patterns)]
          emotionalIntensity == _calculateEmotionalIntensity(content, scored[1].signals)
          technicalDensity ==
            _calculateTechnicalDensity(content, scored[3].signals, scored[4].signals)
          hasHowto == "how_to" \in Names(scored[4].signals)
          boosted(k) ==
            IF k = 1 /\ emotionalIntensity > 700
              THEN (scored[k].totalScore * (1000 + emotionalIntensity \div 2)) \div 1000
            ELSE IF technicalDensity > 600 /\ k = (IF hasHowto THEN 4 ELSE 3)
              THEN (scored[k].totalScore * (1000 + (technicalDensity * 3) \div 10)) \div 1000
            ELSE scored[k].totalScore
          layerScores == [k \in 1..Len(LayerPatterns) |->
                            [score |-> boosted(k), signals |-> scored[k].signals]]
          best == bestOf(layerScores, 1, [layer |-> "working", score |-> 0, signals |-> {}])
      IN [decision |-> [layer |-> best.layer, confidence |-> confidenceOf(layerScores),
                        signals |-> best.signals,
                        emotional_intensity |-> emotionalIntensity,
                        technical_density |-> technicalDensity],
          lastIndex |-> [name \in SignalNames |->
                           (CHOOSE x \in UNION {scored[k].lastIndex : k \in 1..Len(LayerPatterns)} :
                              x[1] = name)[2]]]

\* The contents and the metadata the calls are made with.
Contents == {<<"love", "amazing", "!">>, <<"today", "then", "love">>,
             <<"api", "python", "cache", "node", "{">>,
             <<"how to", "function", "api", "sql", "index", "graph", ";">>,
             <<"todo">>, <<>>}
Metadatas == {<<"core">>, <<"CORE">>, <<"bogus">>}
Inputs == (Contents \X {Absent}) \cup ({<<"todo">>} \X Metadatas)
          \cup ({<<"love", "amazing", "!">>} \X {<<"TEMP">>, <<"episodic">>})

InitAnalyzers ==
  /\ lastIndex = [analyzer \in Analyzers |-> [name \in SignalNames |-> 0]]
  /\ decisions = [input \in Inputs |-> {}]
  /\ calls = <<>>

\* One call of analyze (or of determineLayer, lines 437-445) on an analyzer;
\* the call is synchronous.
Analyze ==
  /\ Len(calls) < MaxCalls
  /\ \E analyzer \in Analyzers, input \in Inputs :
       LET out == analyze(analyzer, input[1], input[2])
       IN /\ lastIndex' = [lastIndex EXCEPT ![analyzer] = out.lastIndex]
          /\ decisions' = [decisions EXCEPT ![input] = @ \cup {out.decision}]
          /\ calls' = Append(calls, <<analyzer, input>>)
  /\ UNCHANGED <<storeVars, now, rateVars, decayVars, curve, shutdown>>

----------------------------------------------------------------------------
(* Shutdown handlers *)

Signals == {"SIGINT", "SIGTERM"}

\* A handler that closes the handles before it stops the timers.
shutdownSequenceCloseFirst ==
  <<"dbManager.closeAll", "decayEngine.stop", "rateLimiter.stop", "logger.shutdown",
    "process.exit">>

\* The statements of the SIGINT and of the SIGTERM handler after the audit
\* entry (index.js lines 651-657 and 668-674).
shutdownSequence ==
  <<"decayEngine.stop", "rateLimiter.stop", "logger.shutdown", "dbManager.closeAll",
    "process.exit">>

\* The statements that the handler awaits.
Awaited == {"logger.shutdown", "dbManager.closeAll"}

\* closeAll, database.js lines 430-445: the read handle of every layer, then
\* the write handles of every layer, one path after the other.
RECURSIVE writeHandles(_, _)
writeHandles(k, i) ==
  IF k > Len(LayerOrder) THEN <<>>
  ELSE IF i > Len(WRITE_PATHS) THEN writeHandles(k + 1, 1)
  ELSE <<<<"write", LayerOrder[k], WRITE_PATHS[i]>>>> \o writeHandles(k, i + 1)

closeOrder ==
  [k \in 1..Len(LayerOrder) |-> <<"read", LayerOrder[k], IF USE_RAM THEN "ram" ELSE "disk">>] \o writeHandles(1, 1)

\* The handles closeAll finds in the two maps.
openHandles ==
  SelectSeq(closeOrder, LAMBDA h : IF h[1] = "read" THEN readConnections[h[2]]
                                   ELSE writeConnections[h[2]])

\* One statement that returns without yielding: DecayEngine.stop (part_002
\* lines 661-667), RateLimiter.stop (part_003 lines 211-216), process.exit(0).
runStatement(sd, statement) ==
  LET after == [sd EXCEPT !.done = Append(@, statement)]
  IN CASE statement = "decayEngine.stop" -> [after EXCEPT !.sweepInterval = FALSE]
       [] statement = "rateLimiter.stop" -> [after EXCEPT !.cleanupInterval = FALSE]
       [] statement = "process.exit" -> [after EXCEPT !.pc = "exited", !.exitCode = <<0>>]
       [] OTHER -> after

\* The handler runs on from its next statement until it awaits one.
RECURSIVE runToAwait(_)
runToAwait(sd) ==
  IF sd.pc = "exited" \/ Len(sd.done) = Len(shutdownSequence) THEN sd
  ELSE LET statement == shutdownSequence[Len(sd.done) + 1]
       IN IF statement \in Awaited
            THEN [sd EXCEPT !.pc = statement]
            ELSE runToAwait(runStatement(sd, statement))

Running == shutdown.pc # "exited"

\* process.on('SIGINT' | 'SIGTERM'), lines 643-675: the signal arrives while
\* the server is serving; the handler runs up to its first await.
Signal(signal) ==
  /\ Serving
  /\ shutdown.pc = "serving"
  /\ shutdown' = runToAwait([shutdown EXCEPT !.pc = "handling", !.signal = signal])
  /\ UNCHANGED <<storeVars, now, rateVars, decayVars, analyzerVars, curve>>

\* await logger.shutdown() (lines 343-352) returns: the audit buffer has been
\* appended to the audit log.
Flushed ==
  /\ shutdown.pc = "logger.shutdown"
  /\ shutdown' = runToAwait([shutdown EXCEPT !.done = Append(@, "logger.shutdown")])
  /\ UNCHANGED <<storeVars, now, rateVars, decayVars, analyzerVars, curve>>

\* closeAll closes its next handle; after the last one it clears the two
\* maps and the handler runs on.
CloseNext ==
  /\ shutdown.pc = "dbManager.closeAll"
  /\ LET left == SelectSeq(openHandles, LAMBDA h : h \notin shutdown.closed)
         closed == IF left = <<>> THEN shutdown.closed ELSE shutdown.closed \cup {Head(left)}
     IN IF Len(left) <= 1
          THEN /\ shutdown' = runToAwait([shutdown EXCEPT
                                            !.closed = closed,
                                            !.done = Append(@, "dbManager.closeAll")])
               /\ readConnections' = [layer \in MEMORY_LAYERS |-> FALSE]
               /\ writeConnections' = [layer \in MEMORY_LAYERS |-> FALSE]
          ELSE /\ shutdown' = [shutdown EXCEPT !.closed = closed]
               /\ UNCHANGED <<readConnections, writeConnections>>
  /\ UNCHANGED <<USE_RAM, truthFile, cacheFile, lastRowid, copied, initIdx, req, faults,
                 now, rateVars, decayVars, analyzerVars, curve>>

\* The write handle that the next statement of a save uses.
handleOf(r) ==
  IF req[r].pc = "write"
    THEN <<"write", req[r].layer, WRITE_PATHS[req[r].i + 1]>>
    ELSE <<"write", req[r].layer, WRITE_PATHS[1]>>

\* A statement of a save on a handle that closeAll has closed: the engine
\* rejects it and the catch blocks of dualWrite (database.js lines 400-409)
\* and saveMemory (part_003 lines 407-438) run.
StatementOnClosedHandle(r) ==
  /\ Running
  /\ req[r].pc \in {"write", "lastid"}
  /\ handleOf(r) \in shutdown.closed
  /\ LET i == req[r].i
         path == WRITE_PATHS[i + 1]
         next == IF i + 1 < Len(WRITE_PATHS) THEN "write" ELSE "lastid"
     IN req' = [req EXCEPT ![r] =
          IF req[r].pc = "lastid" \/ dualWriteOnError(i) = "throw"
            THEN [Respond(r, "error", handleError("DatabaseError").code) EXCEPT
                    !.log = IF req[r].pc = "write" THEN Append(@, path) ELSE @,
                    !.truthWrite = IF req[r].pc = "write" THEN "closed" ELSE @]
            ELSE [req[r] EXCEPT !.pc = next, !.i = i + 1, !.log = Append(@, path),
                                !.cacheWrite = "closed"]]
  /\ UNCHANGED <<USE_RAM, truthFile, cacheFile, readConnections, writeConnections,
                 lastRowid, copied, initIdx, faults, now, rateVars, auxVars>>

\* The sweep timer fires (part_002 lines 645-651): only while it is set.
SweepTimer ==
  /\ Running
  /\ shutdown.sweepInterval
  /\ runSweep

----------------------------------------------------------------------------
(* Specification of the storage side *)

\* What a previous run of the server can have left in a layer's file.
PreviousRuns(layer) ==
  {MissingFile} \cup (IF layer = LayerOrder[1]
                        THEN {[exists |-> TRUE, rows |-> {OldRow}]} ELSE {})

Init ==
  /\ USE_RAM \in BOOLEAN
  /\ truthFile \in [MEMORY_LAYERS -> UNION {PreviousRuns(layer) : layer \in MEMORY_LAYERS}]
  /\ cacheFile \in [MEMORY_LAYERS -> UNION {PreviousRuns(layer) : layer \in MEMORY_LAYERS}]
  /\ \A layer \in MEMORY_LAYERS :
       /\ truthFile[layer] \in PreviousRuns(layer)
       /\ cacheFile[layer] \in {MissingFile} \cup (IF USE_RAM THEN {truthFile[layer]} ELSE {})
  /\ readConnections = [layer \in MEMORY_LAYERS |-> FALSE]
  /\ writeConnections = [layer \in MEMORY_LAYERS |-> FALSE]
  /\ lastRowid = [path \in Paths |-> [layer \in MEMORY_LAYERS |-> 0]]
  /\ copied = [layer \in MEMORY_LAYERS |-> FALSE]
  /\ initIdx = 0
  /\ req = [r \in Reqs |-> IdleReq]
  /\ faults = 0
  /\ now = 1
  /\ InitLimiter
  /\ InitDecayEngine
  /\ InitAnalyzers
  /\ InitCurve
  /\ InitShutdown

Next ==
  \/ Startup
  \/ Tick
  \/ \E r \in Reqs : SaveStart(r, LayerArgs, Saves, {Absent})
  \/ \E r \in Reqs : DualWriteStep(r)
  \/ \E r \in Reqs : SaveLastId(r)
  \/ \E r \in Reqs : RecallStart(r, Queries, {FALSE})
  \/ \E r \in Reqs : RecallScan(r)

Spec == Init /\ [][Next]_vars

----------------------------------------------------------------------------
(* Specification of the storage side with the decay engine *)

\* Rows of a migrated table that previous runs left behind: one that fades
\* (back-filled by the migration), one that is immortal and was accessed
\* later, and one that an earlier sweep already pushed below the threshold.
FadingRow == [id |-> 1, timestamp |-> 1, content |-> <<"a", "b">>,
              context |-> NoText, importance |-> 300,
              emotional_intensity |-> 500,
              last_accessed |-> <<1>>, effective_importance |-> <<300>>,
              access_count |-> 0]
ImmortalRow == [id |-> 2, timestamp |-> 0, content |-> <<"b">>,
                context |-> NoText, importance |-> 950,
                emotional_intensity |-> 500,
                last_accessed |-> <<1>>, effective_importance |-> <<950>>,
                access_count |-> 1]
DecayedRow == [id |-> 1, timestamp |-> 1, content |-> <<"b", "a">>,
               context |-> NoText, importance |-> 200,
               emotional_intensity |-> 500,
               last_accessed |-> <<1>>, effective_importance |-> <<50>>,
               access_count |-> 0]

PreviousDecayRuns(layer) ==
  IF layer = LayerOrder[1]
    THEN {[exists |-> TRUE, rows |-> {FadingRow, ImmortalRow}]}
    ELSE {MissingFile, [exists |-> TRUE, rows |-> {DecayedRow}]}

InitDecay ==
  /\ USE_RAM \in BOOLEAN
  /\ truthFile \in [MEMORY_LAYERS -> UNION {PreviousDecayRuns(layer) : layer \in MEMORY_LAYERS}]
  /\ \A layer \in MEMORY_LAYERS : truthFile[layer] \in PreviousDecayRuns(layer)
  /\ cacheFile = [layer \in MEMORY_LAYERS |-> MissingFile]
  /\ readConnections = [layer \in MEMORY_LAYERS |-> FALSE]
  /\ writeConnections = [layer \in MEMORY_LAYERS |-> FALSE]
  /\ lastRowid = [path \in Paths |-> [layer \in MEMORY_LAYERS |-> 0]]
  /\ copied = [layer \in MEMORY_LAYERS |-> FALSE]
  /\ initIdx = 0
  /\ req = [r \in Reqs |-> IdleReq]
  /\ faults = MaxFaults
  /\ now = 1
  /\ InitLimiter
  /\ InitDecayEngine
  /\ InitAnalyzers
  /\ InitCurve
  /\ InitShutdown

NextDecay ==
  \/ Startup
  \/ Tick
  \/ runSweep
  \/ \E r \in Reqs : SaveStart(r, LayerArgs, Saves, {Absent})
  \/ \E r \in Reqs : DualWriteStep(r)
  \/ \E r \in Reqs : SaveLastId(r)
  \/ \E r \in Reqs : RecallStart(r, Queries, BOOLEAN)
  \/ \E r \in Reqs : RecallScan(r)

SpecDecay == InitDecay /\ [][NextDecay]_vars

----------------------------------------------------------------------------
(* Specification of the decay engine over stores that can fail *)

\* A layer of a migrated table that holds one more fading row than a sweep
\* selects (each back-filled: accessed at the time of the migration, nothing
\* decayed yet) and a row that saveMemory added after the migration (NewRow).
EngineRow(k) == [id |-> k, timestamp |-> 1, content |-> <<"a">>,
                 context |-> NoText, importance |-> 100 * k,
                 emotional_intensity |-> 500,
                 last_accessed |-> <<1>>, effective_importance |-> <<100 * k>>,
                 access_count |-> 0]

EngineRows ==
  {EngineRow(k) : k \in 1..(SWEEP_BATCH_SIZE + 1)}
    \cup {[EngineRow(SWEEP_BATCH_SIZE + 2) EXCEPT !.last_accessed = NULL,
                                                    !.effective_importance = NULL]}

PreviousEngineRuns(layer) ==
  IF layer = LayerOrder[1]
    THEN {[exists |-> TRUE, rows |-> EngineRows]}
    ELSE {[exists |-> TRUE, rows |-> {EngineRow(1)}]}

\* The lists of ids a caller hands to touchMemories: the row of the layer
\* that was inserted last, or all rows.
TouchedIds(layer) ==
  LET ids == {row.id : row \in ReadFile(layer).rows}
  IN {{id \in ids : \A other \in ids : other <= id}, ids} \ {{}}

\* The server after main() has opened every layer without a failure, the
\* cache seeded from the truth store.
InitEngine ==
  /\ USE_RAM \in BOOLEAN
  /\ truthFile \in [MEMORY_LAYERS -> UNION {PreviousEngineRuns(layer) : layer \in MEMORY_LAYERS}]
  /\ \A layer \in MEMORY_LAYERS : truthFile[layer] \in PreviousEngineRuns(layer)
  /\ cacheFile = IF USE_RAM THEN truthFile ELSE [layer \in MEMORY_LAYERS |-> MissingFile]
  /\ readConnections = [layer \in MEMORY_LAYERS |-> TRUE]
  /\ writeConnections = [layer \in MEMORY_LAYERS |-> TRUE]
  /\ lastRowid = [path \in Paths |-> [layer \in MEMORY_LAYERS |-> 0]]
  /\ copied = [layer \in MEMORY_LAYERS |-> TRUE]
  /\ initIdx = Len(LayerOrder)
  /\ req = [r \in Reqs |-> IdleReq]
  /\ faults = 0
  /\ now = 1
  /\ InitLimiter
  /\ InitDecayEngine
  /\ InitAnalyzers
  /\ InitCurve
  /\ InitShutdown

NextEngine ==
  \/ Tick
  \/ runSweep
  \/ \E layer \in MEMORY_LAYERS : \E memoryIds \in TouchedIds(layer) :
       touchMemories(layer, memoryIds)

SpecEngine == InitEngine /\ [][NextEngine]_vars

----------------------------------------------------------------------------
(* Specification of the operations that change rows: saves, sweeps, touches *)

\* The (content, importance) of the saves.
FrameSaves == {<<<<"a">>, 700>>}

NextFrame ==
  \/ NextEngine
  \/ \E r \in Reqs : SaveStart(r, LayerArgs, FrameSaves, {Absent})
  \/ \E r \in Reqs : DualWriteStep(r)
  \/ \E r \in Reqs : SaveLastId(r)

SpecFrame == InitEngine /\ [][NextFrame]_vars

----------------------------------------------------------------------------
(* Specification of a termination signal *)

NextShutdown ==
  \/ \E signal \in Signals : Signal(signal)
  \/ Flushed
  \/ CloseNext
  \/ SweepTimer
  \/ \E r \in Reqs : Running /\ SaveStart(r, LayerArgs, FrameSaves, {Absent})
  \/ \E r \in Reqs : Running /\ handleOf(r) \notin shutdown.closed /\ DualWriteStep(r)
  \/ \E r \in Reqs : Running /\ handleOf(r) \notin shutdown.closed /\ SaveLastId(r)
  \/ \E r \in Reqs : StatementOnClosedHandle(r)

SpecShutdown == InitEngine /\ [][NextShutdown]_vars

----------------------------------------------------------------------------
(* Specification of the query side *)

\* Rows that previous runs left in the episodic layer: texts with the
\* characters LIKE treats specially and with letters of both cases.
PercentRow == [id |-> 1, timestamp |-> 0, content |-> <<"a", "%", "b">>,
               context |-> <<"_">>, importance |-> 300,
               emotional_intensity |-> 400,
               last_accessed |-> <<1>>, effective_importance |-> <<50>>,
               access_count |-> 0]
MixedRow == [id |-> 2, timestamp |-> 1, content |-> <<"a", "A", "b">>,
             context |-> <<"b">>, importance |-> 950,
             emotional_intensity |-> 500,
             last_accessed |-> <<1>>, effective_importance |-> <<950>>,
             access_count |-> 1]
UpperRow == [id |-> 3, timestamp |-> 1, content |-> <<"A">>,
             context |-> NoText, importance |-> 500,
             emotional_intensity |-> 600,
             last_accessed |-> NULL, effective_importance |-> NULL,
             access_count |-> 0]

PreviousQueryRuns(layer) ==
  IF layer = LayerOrder[1]
    THEN {[exists |-> TRUE, rows |-> {PercentRow, MixedRow, UpperRow}]}
    ELSE {[exists |-> TRUE, rows |-> {DecayedRow}]}

\* The options object of a query_layer call.
Options(limit, order_by, filters, params, where) ==
  [limit |-> limit, order_by |-> order_by, filters |-> filters,
   params |-> params, where |-> where]

OrderBys == {<<<<"importance", "asc">>>>, <<<<"importance", "invalid">>>>,
             <<<<"rowid", "asc">>>>, <<<<"TIMESTAMP", "desc">>>>, <<<<>>>>}

FilterSets ==
  {<<>>,
   "importance_min" :> 400,
   "importance_min" :> 600,
   "importance_min" :> 1001,
   ("importance_min" :> 400) @@ ("importance_max" :> 600),
   ("importance_min" :> 600) @@ ("importance_max" :> 400),
   ("emotional_intensity_min" :> 600) @@ ("emotional_intensity_max" :> 500),
   ("timestamp_after" :> 1) @@ ("timestamp_before" :> 0),
   "effective_importance_min" :> 100,
   ("effective_importance_min" :> 600) @@ ("effective_importance_max" :> 400),
   "content_contains" :> <<"%">>,
   "content_contains" :> <<"a">>,
   "context_contains" :> <<"_">>,
   "id" :> 2}

LegacyParams == {<<[type |-> "string", value |-> <<"b">>]>>,
                 <<[type |-> "number", value |-> <<>>]>>,
                 <<>>}

QueryPayloads ==
  {Options(Absent, Absent, Absent, Absent, Absent)}
  \cup {Options(Absent, order_by, Absent, Absent, Absent) : order_by \in OrderBys}
  \cup {Options(Absent, Absent, <<filters>>, Absent, Absent) : filters \in FilterSets}
  \cup {Options(Absent, Absent, Absent, <<params>>, Absent) : params \in LegacyParams}
  \cup {Options(<<1>>, Absent, <<"importance_min" :> 400>>,
                 <<<<[type |-> "string", value |-> <<"b">>]>>>>, <<"1=1">>),
        Options(<<1>>, Absent, Absent, Absent, <<"1=1">>),
        Options(<<0>>, Absent, Absent, Absent, Absent)}

\* The query arguments of the recalls.
RecallFragments == {<<"%">>, <<" ", "a">>}

InitQuery ==
  /\ USE_RAM \in BOOLEAN
  /\ truthFile \in [MEMORY_LAYERS -> UNION {PreviousQueryRuns(layer) : layer \in MEMORY_LAYERS}]
  /\ \A layer \in MEMORY_LAYERS : truthFile[layer] \in PreviousQueryRuns(layer)
  /\ cacheFile = [layer \in MEMORY_LAYERS |-> MissingFile]
  /\ readConnections = [layer \in MEMORY_LAYERS |-> FALSE]
  /\ writeConnections = [layer \in MEMORY_LAYERS |-> FALSE]
  /\ lastRowid = [path \in Paths |-> [layer \in MEMORY_LAYERS |-> 0]]
  /\ copied = [layer \in MEMORY_LAYERS |-> FALSE]
  /\ initIdx = 0
  /\ req = [r \in Reqs |-> IdleReq]
  /\ faults = MaxFaults
  /\ now = 1
  /\ InitLimiter
  /\ InitDecayEngine
  /\ InitAnalyzers
  /\ InitCurve
  /\ InitShutdown

NextQuery ==
  \/ Startup
  \/ \E r \in Reqs : queryLayer(r, QueryPayloads, {FALSE})
  \/ \E r \in Reqs : RecallStart(r, RecallFragments, {FALSE})
  \/ \E r \in Reqs : RecallScan(r)

SpecQuery == InitQuery /\ [][NextQuery]_vars

----------------------------------------------------------------------------
(* Specification of the admission control *)

InitRate ==
  /\ USE_RAM = FALSE
  /\ truthFile = [layer \in MEMORY_LAYERS |-> MissingFile]
  /\ cacheFile = [layer \in MEMORY_LAYERS |-> MissingFile]
  /\ readConnections = [layer \in MEMORY_LAYERS |-> FALSE]
  /\ writeConnections = [layer \in MEMORY_LAYERS |-> FALSE]
  /\ lastRowid = [path \in Paths |-> [layer \in MEMORY_LAYERS |-> 0]]
  /\ copied = [layer \in MEMORY_LAYERS |-> FALSE]
  /\ initIdx = 0
  /\ req = [r \in Reqs |-> IdleReq]
  /\ faults = 0
  /\ now = 0
  /\ InitLimiter
  /\ InitDecayEngine
  /\ InitAnalyzers
  /\ InitCurve
  /\ InitShutdown

NextRate ==
  \/ \E call \in ToolCalls : Dispatch(call[1], call[2])
  \/ AdvanceClock
  \/ Cleanup

SpecRate == InitRate /\ [][NextRate]_vars

----------------------------------------------------------------------------
(* Specification of the routing of saves *)

\* The layer arguments, the (content, importance) and the metadata.layer of
\* the saves.
RouteLayers == {Absent, <<"episodic">>, <<"WORKING">>, <<"temp">>, <<"events">>, <<"bogus">>}
RouteSaves == {<<<<"love", "amazing", "!">>, 700>>, <<<<"today", "then", "love">>, 700>>,
               <<<<"todo">>, 700>>}
RouteMetadataLayers == {Absent, <<"core">>, <<"episodic">>}

InitRoute ==
  /\ USE_RAM \in BOOLEAN
  /\ truthFile = [layer \in MEMORY_LAYERS |-> MissingFile]
  /\ cacheFile = [layer \in MEMORY_LAYERS |-> MissingFile]
  /\ readConnections = [layer \in MEMORY_LAYERS |-> FALSE]
  /\ writeConnections = [layer \in MEMORY_LAYERS |-> FALSE]
  /\ lastRowid = [path \in Paths |-> [layer \in MEMORY_LAYERS |-> 0]]
  /\ copied = [layer \in MEMORY_LAYERS |-> FALSE]
  /\ initIdx = 0
  /\ req = [r \in Reqs |-> IdleReq]
  /\ faults = MaxFaults
  /\ now = 1
  /\ InitLimiter
  /\ InitDecayEngine
  /\ InitAnalyzers
  /\ InitCurve
  /\ InitShutdown

NextRoute ==
  \/ Startup
  \/ \E r \in Reqs : SaveStart(r, RouteLayers, RouteSaves, RouteMetadataLayers)
  \/ \E r \in Reqs : DualWriteStep(r)
  \/ \E r \in Reqs : SaveLastId(r)

SpecRoute == InitRoute /\ [][NextRoute]_vars

----------------------------------------------------------------------------
(* Specification of the content analyzer *)

\* The analyzers need no store: the server has not opened any layer.
InitAnalyze ==
  /\ USE_RAM = FALSE
  /\ truthFile = [layer \in MEMORY_LAYERS |-> MissingFile]
  /\ cacheFile = [layer \in MEMORY_LAYERS |-> MissingFile]
  /\ readConnections = [layer \in MEMORY_LAYERS |-> FALSE]
  /\ writeConnections = [layer \in MEMORY_LAYERS |-> FALSE]
  /\ lastRowid = [path \in Paths |-> [layer \in MEMORY_LAYERS |-> 0]]
  /\ copied = [layer \in MEMORY_LAYERS |-> FALSE]
  /\ initIdx = 0
  /\ req = [r \in Reqs |-> IdleReq]
  /\ faults = 0
  /\ now = 0
  /\ InitLimiter
  /\ InitDecayEngine
  /\ InitAnalyzers
  /\ InitCurve
  /\ InitShutdown

NextAnalyze == Analyze

SpecAnalyze == InitAnalyze /\ [][NextAnalyze]_vars

----------------------------------------------------------------------------
(* Specification of the storage side with get_status *)

StatusSaves == {<<<<"a">>, 700>>}
StatusPayloads == {Options(Absent, Absent, Absent, Absent, Absent)}

NextStatus ==
  \/ Startup
  \/ \E r \in Reqs : SaveStart(r, LayerArgs, StatusSaves, {Absent})
  \/ \E r \in Reqs : DualWriteStep(r)
  \/ \E r \in Reqs : SaveLastId(r)
  \/ \E r \in Reqs : RecallStart(r, Queries, {FALSE})
  \/ \E r \in Reqs : RecallScan(r)
  \/ \E r \in Reqs : queryLayer(r, StatusPayloads, {FALSE})
  \/ \E r \in Reqs : StatusStart(r)
  \/ \E r \in Reqs : StatusScan(r)

SpecStatus == Init /\ [][NextStatus]_vars

----------------------------------------------------------------------------
(* Specification of the decay curve *)

\* Importances below the immortal threshold (0, 0.1 ... 0.899) and the
\* times of the last access (Date.now() / 1000 is positive).
CurveImportances == {0, 100, 200, 300, 400, 500, 600, 700, 800, IMMORTAL_THRESHOLD - 1}
CurveAccesses == {2, 3}

InitSample ==
  /\ USE_RAM = FALSE
  /\ truthFile = [layer \in MEMORY_LAYERS |-> MissingFile]
  /\ cacheFile = [layer \in MEMORY_LAYERS |-> MissingFile]
  /\ readConnections = [layer \in MEMORY_LAYERS |-> FALSE]
  /\ writeConnections = [layer \in MEMORY_LAYERS |-> FALSE]
  /\ lastRowid = [path \in Paths |-> [layer \in MEMORY_LAYERS |-> 0]]
  /\ copied = [layer \in MEMORY_LAYERS |-> FALSE]
  /\ initIdx = 0
  /\ req = [r \in Reqs |-> IdleReq]
  /\ faults = 0
  /\ now = 0
  /\ InitLimiter
  /\ InitDecayEngine
  /\ InitAnalyzers
  /\ curve \in {[importance |-> i, lastAccessed |-> a, values |-> <<>>] :
                  i \in CurveImportances, a \in CurveAccesses}
  /\ InitShutdown

NextSample == Sample

SpecSample == InitSample /\ [][NextSample]_vars

----------------------------------------------------------------------------
(* Properties of the dual-write coordinator *)

SaveDone(r) == req[r].tool = "remember" /\ req[r].pc = "done"

RecallDone(r) == req[r].tool = "recall" /\ req[r].pc = "done"

\* The row of a request is in a store under a given id.
HasRowOf(rows, r, id) ==
  \E row \in rows : /\ row.id = id
                    /\ row.content = req[r].content
                    /\ row.timestamp = req[r].timestamp
                    /\ row.importance = req[r].importance

\* C1: with a cache configured, a save issues its statement to the truth
\* store first and to the cache second; when the truth execution fails the
\* save ends with an error and nothing is issued to the cache.
C1_TruthBeforeCache ==
  \A r \in Reqs :
    /\ req[r].log \in {<<>>, <<"disk">>, <<"disk", "ram">>}
    /\ req[r].cacheWrite # "none" => req[r].truthWrite = "ok"
    /\ req[r].truthWrite = "failed" =>
         /\ req[r].pc = "done"
         /\ req[r].status = "error"
         /\ req[r].log = <<"disk">>

C1_Witness ==
  \E r \in Reqs : /\ USE_RAM
                  /\ SaveDone(r)
                  /\ req[r].truthWrite = "failed"
                  /\ req[r].status = "error"

\* C2: a save whose truth write succeeded and whose cache write failed
\* reports success with the id of the row it inserted, and the truth store
\* holds that row.
C2_CacheFailureStillSucceeds ==
  \A r \in Reqs :
    (SaveDone(r) /\ req[r].truthWrite = "ok" /\ req[r].cacheWrite = "failed") =>
      /\ req[r].status = "ok"
      /\ req[r].id = req[r].insertedId
      /\ HasRowOf(truthFile[req[r].layer].rows, r, req[r].id)

\* C3: every row of a layer's cache is in the layer's truth store under the
\* same id with the same content, timestamp and importance.
C3_CacheRowsInTruth ==
  USE_RAM =>
    \A layer \in MEMORY_LAYERS :
      \A row \in cacheFile[layer].rows :
        \E truth \in truthFile[layer].rows :
          /\ truth.id = row.id
          /\ truth.content = row.content
          /\ truth.timestamp = row.timestamp
          /\ truth.importance = row.importance

\* C4: the id a save returns is the id the truth store gave to the row
\* that this save inserted.
C4_ReturnsOwnId ==
  \A r \in Reqs :
    (SaveDone(r) /\ req[r].status = "ok") => req[r].id = req[r].insertedId

\* The fragment occurs in the text (compared character by character).
Substring(fragment, text) ==
  \E k \in 0..(Len(text) - Len(fragment)) :
    SubSeq(text, k + 1, k + Len(fragment)) = fragment

Searched(r) == {RecallLayers(req[r].layer)[k] : k \in 1..Len(RecallLayers(req[r].layer))}

\* The rows of the searched layers' truth stores that contain the query.
TruthMatches(r) ==
  {<<layer, row>> \in MEMORY_LAYERS \X UNION {truthFile[l].rows : l \in MEMORY_LAYERS} :
     /\ layer \in Searched(r)
     /\ row \in truthFile[layer].rows
     /\ Substring(req[r].query, row.content)}

Returned(r, s) ==
  \E k \in 1..Len(req[r].results) :
    /\ req[r].results[k].layer = req[s].layer
    /\ req[r].results[k].content = req[s].content
    /\ req[r].results[k].timestamp = req[s].timestamp
    /\ req[r].results[k].importance = req[s].importance

\* C5: a recall that starts after a save returned success, searches the
\* save's layer with a query contained in the saved content and has a limit
\* not below the number of matches, returns the saved record with its
\* importance - also when the cache write of that save failed.
C5_SavedIsRecalled ==
  \A r \in Reqs :
    (RecallDone(r) /\ req[r].status = "ok") =>
      \A s \in req[r].savedBefore :
        ( /\ req[s].layer \in Searched(r)
          /\ Substring(req[r].query, req[s].content)
          /\ req[r].limit >= Cardinality(TruthMatches(r)) )
        => Returned(r, s)

\* C6: with a cache configured, a recall during which opening or reading
\* the cache failed is answered from the truth store and succeeds.
C6_ReadFallsBackToTruth ==
  \A r \in Reqs :
    (RecallDone(r) /\ req[r].readFault) => req[r].status = "ok"

\* C7: when a layer is opened for the first time and its cache file is
\* missing while its truth file exists, the cache file the handle is opened
\* on is a copy of the truth file: it holds every row of the truth store.
C7_SeedBeforeOpen ==
  [][\A layer \in MEMORY_LAYERS :
       ( /\ USE_RAM
         /\ ~readConnections[layer] /\ readConnections'[layer]
         /\ ~cacheFile[layer].exists /\ truthFile[layer].exists )
       => /\ cacheFile'[layer].exists
          /\ cacheFile'[layer].rows = truthFile[layer].rows]_vars

C7_Witness ==
  \E layer \in MEMORY_LAYERS :
    /\ copied[layer]
    /\ readConnections[layer]
    /\ OldRow \in cacheFile[layer].rows

----------------------------------------------------------------------------
(* Properties of the decay engine and of recall *)

Immortal(row) == row.importance >= IMMORTAL_THRESHOLD

\* The default visibility filter.
Visible(row) ==
  row.effective_importance = NULL \/ row.effective_importance[1] >= THRESHOLD

\* COALESCE(effective_importance, importance)
Rank(row) ==
  IF row.effective_importance = NULL THEN row.importance
  ELSE row.effective_importance[1]

\* x ranks above y: higher rank, or equal rank and later timestamp.
Above(x, y) ==
  \/ Rank(x) > Rank(y)
  \/ Rank(x) = Rank(y) /\ x.timestamp > y.timestamp

AllRows == UNION {truthFile[layer].rows \cup cacheFile[layer].rows : layer \in MEMORY_LAYERS}

\* C11: a record whose importance is at or above the immortal threshold is
\* never selected by a sweep, and its stored effective_importance equals its
\* importance in every state after it was saved.
C11_ImmortalKeepsImportance ==
  /\ \A layer \in MEMORY_LAYERS :
       \A row \in ReadFile(layer).rows :
         (<<layer, row.id>> \in swept /\ stats.totalSweeps > 0) => ~Immortal(row)
  /\ \A row \in AllRows : Immortal(row) => row.effective_importance = <<row.importance>>

\* The (layer, id) pairs a finished recall returned.
ReturnedIds(r) ==
  {<<req[r].results[k].layer, req[r].results[k].id>> : k \in 1..Len(req[r].results)}

\* The row behind a result, as the recall read it.
SeenRow(r, k) ==
  (CHOOSE p \in req[r].seen : /\ p[1] = req[r].results[k].layer
                               /\ p[2].id = req[r].results[k].id)[2]

\* C12: for each record a recall returned, the stored record has an
\* access_count one above the one the recall read and a last_accessed that
\* is not before the recall's invocation time.
C12_RecallTouches ==
  \A r \in Reqs :
    (RecallDone(r) /\ req[r].status = "ok") =>
      \A k \in 1..Len(req[r].results) :
        \E row \in ReadFile(req[r].results[k].layer).rows :
          /\ row.id = req[r].results[k].id
          /\ row.access_count >= SeenRow(r, k).access_count + 1
          /\ row.last_accessed # NULL
          /\ row.last_accessed[1] >= req[r].startedAt

\* The matching rows a recall may return under its include_decayed flag.
Matching(r) ==
  {p \in req[r].seen : req[r].include_decayed \/ Visible(p[2])}

QueryDone(r) == req[r].tool = "query_layer" /\ req[r].pc = "done"

QueryOk(r) == QueryDone(r) /\ req[r].status = "ok"

\* The statement a finished query ran.
Executed(r) == req[r].executed[1]

\* The rows of the layer, as a finished query read them.
LayerRows(r) == {p[2] : p \in req[r].seen}

\* The ids a finished query returned.
QueryIds(r) == {req[r].results[k].id : k \in 1..Len(req[r].results)}

\* The rows that pass the other filters of a query and its include_decayed
\* flag.
QueryMatching(r) ==
  {row \in LayerRows(r) :
     /\ whereHolds(row, Executed(r).text, Executed(r).params)
     /\ req[r].include_decayed \/ Visible(row)}

\* C13: without include_decayed a recall or a query_layer returns no
\* matching row whose effective_importance is below the threshold, and
\* every matching row that is NULL or at or above the threshold when the
\* limit allows; with include_decayed it returns every matching row the
\* limit allows.
C13_VisibilityFilter ==
  \A r \in Reqs :
    /\ (RecallDone(r) /\ req[r].status = "ok") =>
         /\ \A p \in req[r].seen :
              <<p[1], p[2].id>> \in ReturnedIds(r) => p \in Matching(r)
         /\ req[r].limit >= Cardinality(req[r].seen) =>
              \A p \in Matching(r) : <<p[1], p[2].id>> \in ReturnedIds(r)
    /\ QueryOk(r) =>
         /\ QueryIds(r) \subseteq {row.id : row \in QueryMatching(r)}
         /\ Executed(r).params[Len(Executed(r).params)] >= Cardinality(LayerRows(r)) =>
              {row.id : row \in QueryMatching(r)} \subseteq QueryIds(r)

\* C14: a recall returns min(limit, number of matching rows) records, in
\* the order of COALESCE(effective_importance, importance) descending, then
\* timestamp descending, and no row it leaves out ranks above one it returns.
C14_RecallOrder ==
  \A r \in Reqs :
    (RecallDone(r) /\ req[r].status = "ok" /\ Matching(r) = req[r].seen) =>
      /\ Len(req[r].results) <= req[r].limit
      /\ Len(req[r].results) =
           (IF Cardinality(req[r].seen) < req[r].limit
              THEN Cardinality(req[r].seen) ELSE req[r].limit)
      /\ \A k \in 1..(Len(req[r].results) - 1) :
           ~Above(SeenRow(r, k + 1), SeenRow(r, k))
      /\ \A p \in req[r].seen :
           <<p[1], p[2].id>> \notin ReturnedIds(r) =>
             \A k \in 1..Len(req[r].results) : ~Above(p[2], SeenRow(r, k))

SinceAccess == {k \in 1..Len(curve.values) : SampleTime(k) >= curve.lastAccessed}

NonIncreasing ==
  \A j, k \in 1..Len(curve.values) : j < k => curve.values[k] <= curve.values[j]

EqualsImportanceAtAccess ==
  \A k \in 1..Len(curve.values) :
    SampleTime(k) = curve.lastAccessed => curve.values[k] = curve.importance

\* C25: for a fixed importance i below the immortal threshold and a fixed
\* last-accessed time a, calculateEffectiveImportance(i, a, t) is
\* non-increasing in t, strictly decreasing for t > a whenever i < 1, and
\* equal to i at t = a.
C25_DecayCurve ==
  /\ NonIncreasing
  /\ EqualsImportanceAtAccess
  /\ curve.importance < MAX_IMPORTANCE =>
       \A j, k \in SinceAccess : j < k => curve.values[k] < curve.values[j]

\* C25, amended: the value is non-increasing in t, equal to i at t = a, and
\* from a on strictly below every earlier value that is positive; for
\* i = 0 it is 0 at all times.
C25_DecayCurveWhilePositive ==
  /\ NonIncreasing
  /\ EqualsImportanceAtAccess
  /\ \A j, k \in SinceAccess :
       (j < k /\ curve.values[j] > 0) => curve.values[k] < curve.values[j]
  /\ curve.importance = 0 => \A k \in 1..Len(curve.values) : curve.values[k] = 0

\* A record of positive importance has been sampled before, at and twice
\* after its last access, and has lost importance each time after it.
C25_Witness ==
  /\ curve.importance > 0
  /\ \E j, k \in SinceAccess :
       /\ SampleTime(j) > curve.lastAccessed
       /\ j < k
       /\ 0 < curve.values[k]
       /\ curve.values[k] < curve.values[j]
       /\ curve.values[j] < curve.importance
  /\ \E k \in 1..Len(curve.values) : SampleTime(k) < curve.lastAccessed

----------------------------------------------------------------------------
(* Properties of the query compiler *)

\* The column and the direction an order_by asks for.
RequestedColumn(orderBy) ==
  IF orderBy = Absent \/ orderBy[1] = <<>> THEN "" ELSE toLowerCase(orderBy[1][1])
RequestedDirection(orderBy) ==
  IF orderBy = Absent \/ Len(orderBy[1]) < 2 THEN "DESC" ELSE toUpperCase(orderBy[1][2])

\* The <<column, direction>> of the ORDER BY of a statement text.
EmittedOrder(text) == <<text[Len(text) - 2], text[Len(text) - 1]>>

FilterKeys(options) ==
  IF options.filters = Absent THEN {} ELSE DOMAIN options.filters[1]

\* The payload asks for the legacy search: no filters member and a string
\* in first place of params.
LegacySearch(options) ==
  /\ options.filters = Absent
  /\ options.params # Absent
  /\ Len(options.params[1]) > 0
  /\ options.params[1][1].type = "string"

\* The fragments a statement text is made of, apart from the column and
\* the direction of its ORDER BY.
FixedFragments ==
  {"SELECT * FROM memories", "WHERE", "AND", "ORDER BY", "LIMIT ?", LegacyCondition}
  \cup {conditionOf(WhereOrder[k]) : k \in 1..Len(WhereOrder)}

\* Only fixed fragments and a whitelisted ORDER BY make up the text.
Parameterized(text) ==
  /\ \A k \in 1..Len(text) :
       k \notin {Len(text) - 2, Len(text) - 1} => text[k] \in FixedFragments
  /\ EmittedOrder(text)[1] \in ALLOWED_COLUMNS
  /\ EmittedOrder(text)[2] \in ALLOWED_ORDER_DIRECTIONS

\* The payloads whose statement must read like the one request r ran.
SameShape(r, legacyToo) ==
  {q \in QueryPayloads :
     /\ validateQueryOptions(q).ok
     /\ FilterKeys(q) = FilterKeys(req[r].options)
     /\ sanitizeOrderBy(q.order_by) = sanitizeOrderBy(req[r].options.order_by)
     /\ legacyToo => (LegacySearch(q) <=> LegacySearch(req[r].options))}

\* C16 as stated: two payloads with the same filter keys and the same
\* sanitized order_by give the same statement text, the text is made of
\* fixed fragments only and its ORDER BY is whitelisted.
C16_SameKeysSameText ==
  \A r \in Reqs :
    QueryOk(r) =>
      /\ Parameterized(Executed(r).text)
      /\ \A q \in SameShape(r, FALSE) :
           queryStatement(validateQueryOptions(q).value).text = Executed(r).text

\* C16, amended: two payloads with the same filter keys and the same
\* sanitized order_by that agree on asking for the legacy search (no
\* filters member, a string in first place of params) give the same
\* statement text; the text is made of fixed fragments only, so values,
\* the limit, the legacy search term and `where` never reach it; its
\* ORDER BY is whitelisted.
C16_ParameterizedText ==
  \A r \in Reqs :
    QueryOk(r) =>
      /\ Parameterized(Executed(r).text)
      /\ \A q \in SameShape(r, TRUE) :
           queryStatement(validateQueryOptions(q).value).text = Executed(r).text

\* A query ran with a filter, a limit, legacy params and a legacy `where`,
\* and a payload with another value for the same filter key and none of
\* the other members has the same shape.
C16_Witness ==
  \E r \in Reqs :
    /\ QueryOk(r)
    /\ req[r].options.where # Absent
    /\ req[r].options.params # Absent
    /\ req[r].options.limit # Absent
    /\ \E q \in SameShape(r, TRUE) :
         /\ q.filters # Absent
         /\ q.filters # req[r].options.filters
         /\ q.where = Absent

\* The text with its ASCII letters folded.
Folded(text) == [k \in 1..Len(text) |-> Fold(text[k])]

\* The text contains the fragment, letter case aside.
ContainsFolded(fragment, text) == Substring(Folded(fragment), Folded(text))

\* The rows the searches of a finished request matched: for a recall the
\* rows its SELECTs matched, for a query the rows it returned (when its
\* limit covers the layer).
\* contains(fragment, text) is the reading of "contains" under test.
SearchesAgree(r, contains(_, _)) ==
  /\ (RecallDone(r) /\ req[r].status = "ok") =>
       \A k \in 1..Len(RecallLayers(req[r].layer)) :
         LET layer == RecallLayers(req[r].layer)[k]
         IN \A row \in ReadFile(layer).rows :
              <<layer, row>> \in req[r].seen <=>
                (contains(req[r].query, row.content) \/ contains(req[r].query, row.context))
  /\ (QueryOk(r) /\ FilterKeys(req[r].options) = {"content_contains"}) =>
       \A row \in LayerRows(r) :
         row.id \in QueryIds(r) <=>
           contains(req[r].options.filters[1]["content_contains"], row.content)
  /\ (QueryOk(r) /\ FilterKeys(req[r].options) = {"context_contains"}) =>
       \A row \in LayerRows(r) :
         row.id \in QueryIds(r) <=>
           contains(req[r].options.filters[1]["context_contains"], row.context)

\* C17 as stated: a content_contains or context_contains filter and the
\* recall query match a row if and only if the searched text contains the
\* fragment as a literal substring.
C17_LiteralSubstring ==
  \A r \in Reqs : SearchesAgree(r, Substring)

\* C17, amended: a content_contains or context_contains filter and the
\* (trimmed) recall query match a row if and only if the searched text
\* contains the fragment as a substring when ASCII letter case is ignored;
\* the characters %, _ and \ of the fragment match only themselves.
C17_LiteralUpToCase ==
  \A r \in Reqs : SearchesAgree(r, ContainsFolded)

\* A query searched for "%" and returned the one row that holds it, leaving
\* out rows without it.
C17_Witness ==
  \E r \in Reqs :
    /\ QueryOk(r)
    /\ FilterKeys(req[r].options) = {"content_contains"}
    /\ req[r].options.filters[1]["content_contains"] = <<"%">>
    /\ QueryIds(r) = {PercentRow.id}
    /\ Cardinality(LayerRows(r)) > 1

\* The (min, max) pairs of the filters.
RangePairs == {<<"importance_min", "importance_max">>,
               <<"emotional_intensity_min", "emotional_intensity_max">>,
               <<"effective_importance_min", "effective_importance_max">>,
               <<"timestamp_after", "timestamp_before">>}

\* C18: a query_layer call whose filters hold importance_min >
\* importance_max, emotional_intensity_min > emotional_intensity_max,
\* effective_importance_min > effective_importance_max or timestamp_after >
\* timestamp_before ends in a validation error and runs no statement.
C18_CrossedRangesRejected ==
  \A r \in Reqs :
    (/\ QueryDone(r)
     /\ req[r].options.filters # Absent
     /\ \E pair \in RangePairs :
          crossed(req[r].options.filters[1], pair[1], pair[2])) =>
      /\ req[r].status = "error"
      /\ req[r].code = "VALIDATION_ERROR"
      /\ req[r].executed = <<>>

\* A row passes a recognized filter.
FilterHolds(row, key, value) ==
  CASE key = "id" -> row.id = value
    [] key = "importance_min" -> row.importance >= value
    [] key = "importance_max" -> row.importance <= value
    [] key = "emotional_intensity_min" -> row.emotional_intensity >= value
    [] key = "emotional_intensity_max" -> row.emotional_intensity <= value
    [] key = "timestamp_after" -> row.timestamp >= value
    [] key = "timestamp_before" -> row.timestamp <= value
    [] key = "content_contains" -> ContainsFolded(value, row.content)
    [] key = "context_contains" -> ContainsFolded(value, row.context)
    [] key = "effective_importance_min" ->
         row.effective_importance # NULL /\ row.effective_importance[1] >= value
    [] key = "effective_importance_max" ->
         row.effective_importance # NULL /\ row.effective_importance[1] <= value
    [] OTHER -> TRUE

\* The rows of the layer that pass every supplied filter.
Expected(r) ==
  {row \in LayerRows(r) :
     \A key \in FilterKeys(req[r].options) :
       FilterHolds(row, key, req[r].options.filters[1][key])}

\* The row of the layer behind the k-th result of a query.
QueryRow(r, k) == CHOOSE row \in LayerRows(r) : row.id = req[r].results[k].id

\* The limit a payload asks for.
RequestedLimit(options) ==
  IF options.limit = Absent THEN DEFAULT_LIMIT ELSE options.limit[1]

\* C19: a query_layer call without the legacy search returns the rows of
\* the layer that pass every supplied recognized filter, in the order of
\* the sanitized order_by, cut to the limit.
C19_ConjunctionOfFilters ==
  \A r \in Reqs :
    (QueryOk(r) /\ ~LegacySearch(req[r].options)) =>
      LET order == sanitizeOrderBy(req[r].options.order_by)
          limit == RequestedLimit(req[r].options)
      IN /\ QueryIds(r) \subseteq {row.id : row \in Expected(r)}
         /\ Len(req[r].results) =
              (IF Cardinality(Expected(r)) < limit THEN Cardinality(Expected(r)) ELSE limit)
         /\ \A k \in 1..(Len(req[r].results) - 1) :
              IF order[2] = "ASC"
                THEN ColumnLeq(QueryRow(r, k), QueryRow(r, k + 1), order[1])
                ELSE ColumnLeq(QueryRow(r, k + 1), QueryRow(r, k), order[1])
         /\ \A row \in Expected(r) :
              row.id \notin QueryIds(r) =>
                \A k \in 1..Len(req[r].results) :
                  IF order[2] = "ASC"
                    THEN ColumnLeq(QueryRow(r, k), row, order[1])
                    ELSE ColumnLeq(row, QueryRow(r, k), order[1])

----------------------------------------------------------------------------
(* Properties of the content analyzer *)

SixLayers == {"episodic", "semantic", "procedural", "meta", "identity", "working"}

\* The canonical layer a (lower-cased) name stands for, or "none".
CanonicalOf(name) ==
  CASE name \in SixLayers -> name
    [] name \in {"core", "self", "values"} -> "identity"
    [] name \in {"temp", "scratch", "wip"} -> "working"
    [] name \in {"facts", "knowledge"} -> "semantic"
    [] name \in {"skills", "howto"} -> "procedural"
    [] name \in {"insights", "reasoning"} -> "meta"
    [] name \in {"events", "conversations"} -> "episodic"
    [] OTHER -> "none"

\* C21: a call of analyze whose metadata names a canonical layer or an
\* alias, in any letter case, decides that canonical layer with confidence
\* 1.0 whatever the content; with another name it decides one of the six
\* layers.
C21_ExplicitLayerHonored ==
  \A input \in Inputs :
    input[2] # Absent =>
      \A decision \in decisions[input] :
        IF CanonicalOf(toLowerCase(input[2][1])) # "none"
          THEN /\ decision.layer = CanonicalOf(toLowerCase(input[2][1]))
               /\ decision.confidence = 1000
          ELSE decision.layer \in SixLayers

\* An alias in capitals was honored for a content that routes elsewhere
\* without it, and an unknown name was decided by the content.
C21_Witness ==
  /\ \E d \in decisions[<<<<"love", "amazing", "!">>, <<"TEMP">>>>] : d.layer = "working"
  /\ \E d \in decisions[<<<<"love", "amazing", "!">>, Absent>>] : d.layer = "identity"
  /\ \E d \in decisions[<<<<"todo">>, <<"bogus">>>>] : d.layer = "working" /\ d.confidence < 1000

----------------------------------------------------------------------------
(* Properties of the routing of saves *)

\* C22: a save whose layer argument is an alias is not refused as invalid
\* and its record goes to the canonical layer of the alias.
C22_AliasAccepted ==
  \A r \in Reqs :
    (/\ SaveDone(r)
     /\ req[r].layerArg # Absent
     /\ toLowerCase(req[r].layerArg[1]) \notin SixLayers
     /\ CanonicalOf(toLowerCase(req[r].layerArg[1])) # "none"
     /\ Len(trim(req[r].content)) > 0) =>
      /\ req[r].code # "VALIDATION_ERROR"
      /\ req[r].layer = CanonicalOf(toLowerCase(req[r].layerArg[1]))

\* C23: a save without a layer argument that succeeded stored its record
\* in the layer that analyze decides for the same content and metadata.
C23_StoredWhereRouted ==
  \A r \in Reqs :
    (SaveDone(r) /\ req[r].status = "ok" /\ req[r].layerArg = Absent) =>
      /\ req[r].layer =
           analyze("determineLayer._analyzer", req[r].content, req[r].metadataLayer).decision.layer
      /\ \E row \in truthFile[req[r].layer].rows : row.content = req[r].content

----------------------------------------------------------------------------
(* Properties of the admission control *)

\* Calls to a tool that were let through in the window (t - W, t].
AdmittedTo(toolName, t) ==
  Cardinality({k \in 1..Len(admitted) :
     /\ admitted[k][1] = toolName
     /\ admitted[k][2] > t - TOOL_WINDOW_MS
     /\ admitted[k][2] <= t})

\* Calls to any tool that were let through in the window (t - W, t].
AdmittedAll(t) ==
  Cardinality({k \in 1..Len(admitted) :
     /\ admitted[k][2] > t - GLOBAL_WINDOW_MS
     /\ admitted[k][2] <= t})

\* The tool names that have a cap C_op.
CappedTools == Tools \ InheritedNames

Denied == lastCheck.tool # "none" /\ ~lastCheck.allowed

\* The calls that had been let through before the latest call was decided.
PriorTo(toolName) ==
  AdmittedTo(toolName, now) -
    (IF lastCheck.allowed /\ lastCheck.tool = toolName THEN 1 ELSE 0)

OldestInWindow ==
  LET times == {admitted[k][2] : k \in {j \in 1..Len(admitted) :
                  /\ admitted[j][2] > now - GLOBAL_WINDOW_MS
                  /\ lastCheck.reason = "tool" => admitted[j][1] = lastCheck.tool}}
  IN CHOOSE m \in times : \A x \in times : m <= x

\* C9: a denial carries 1000 <= retryAfterMs <= W, and retryAfterMs is
\* oldest_in_window + W - t whenever that value is at least 1000.
C9_RetryAfterBounds ==
  Denied =>
    /\ lastCheck.retryAfterMs >= MinRetryAfterMs
    /\ lastCheck.retryAfterMs <= GLOBAL_WINDOW_MS
    /\ lastCheck.at = now =>
         LET raw == OldestInWindow + GLOBAL_WINDOW_MS - now
         IN raw >= MinRetryAfterMs => lastCheck.retryAfterMs = raw

C9_Witness ==
  /\ Denied
  /\ lastCheck.at = now
  /\ OldestInWindow + GLOBAL_WINDOW_MS - now < MinRetryAfterMs
  /\ lastCheck.retryAfterMs = MinRetryAfterMs

\* C10: a call is denied only when its own tool is at its cap or the global
\* count is at G; another tool being at its cap denies nothing.
C10_NoCrossToolDenial ==
  (Denied /\ lastCheck.at = now) =>
    \/ AdmittedAll(now) >= GLOBAL_MAX_REQUESTS
    \/ /\ lastCheck.tool \in CappedTools
       /\ AdmittedTo(lastCheck.tool, now) >= toolMax(lastCheck.tool)

C10_Witness ==
  /\ lastCheck.allowed
  /\ lastCheck.at = now
  /\ lastCheck.tool \in CappedTools
  /\ \E other \in CappedTools \ {lastCheck.tool} :
       PriorTo(other) >= toolMax(other)

----------------------------------------------------------------------------
(* Properties of the order of the writes *)

\* The ids under which a store holds the row of a request.
RowIdsOf(rows, r) ==
  {row.id : row \in {x \in rows : /\ x.content = req[r].content
                                   /\ x.timestamp = req[r].timestamp
                                   /\ x.importance = req[r].importance}}

\* Both stores of the layer took the INSERT of the save r.
WrittenTwice(r) ==
  /\ req[r].tool = "remember"
  /\ req[r].truthWrite = "ok"
  /\ req[r].cacheWrite = "ok"

\* C29: the inserts of a layer are applied in the order in which the
\* requests were received (the order of the request slots), in the truth
\* store and in the cache alike.
C29_WritesInArrivalOrder ==
  \A r, s \in Reqs :
    ( /\ r < s
      /\ WrittenTwice(r) /\ WrittenTwice(s)
      /\ req[r].layer = req[s].layer
      /\ req[r].content # req[s].content ) =>
        /\ \A x \in RowIdsOf(truthFile[req[r].layer].rows, r),
               y \in RowIdsOf(truthFile[req[r].layer].rows, s) : x < y
        /\ \A u \in RowIdsOf(cacheFile[req[r].layer].rows, r),
               v \in RowIdsOf(cacheFile[req[r].layer].rows, s) : u < v

----------------------------------------------------------------------------
(* Properties of the dispatcher *)

Answered == lastCheck.tool # "none"

\* No layer has been opened, read or written.
StoresUntouched ==
  \A layer \in MEMORY_LAYERS :
    /\ ~readConnections[layer]
    /\ ~writeConnections[layer]
    /\ truthFile[layer] = MissingFile
    /\ cacheFile[layer] = MissingFile

\* The errors handleError classifies before its last branch.
ClassifiedErrors == {"UnknownTool", "RateLimitError", "ValidationError", "DatabaseError"}

ResidualIsInternal ==
  (Answered /\ lastCheck.thrown \notin ClassifiedErrors \cup {"none"}) =>
    /\ lastCheck.code = "INTERNAL_ERROR"
    /\ lastCheck.statusCode = 500

\* C26: every tool call gets one response, the handler's or an error
\* envelope; a call naming an operation outside the six gets the error
\* UNKNOWN_TOOL with statusCode 400 and no store is read or written; any
\* other uncaught failure gets INTERNAL_ERROR with statusCode 500.
C26_UnknownToolError ==
  /\ (Answered /\ lastCheck.tool \notin TOOL_NAMES) =>
       /\ lastCheck.code = "UNKNOWN_TOOL"
       /\ lastCheck.statusCode = 400
       /\ StoresUntouched
  /\ ResidualIsInternal

\* C26, amended: a call over a rate limit gets RATE_LIMIT_EXCEEDED with
\* statusCode 429 whatever its name; an admitted call naming an operation
\* outside the six gets UNKNOWN_TOOL with statusCode 400; neither reads or
\* writes a store; only an admitted call to one of the six that throws
\* nothing in the switch reaches its handler; an unclassified error gets
\* INTERNAL_ERROR with statusCode 500.
C26_AdmittedUnknownToolError ==
  /\ (Answered /\ ~lastCheck.allowed) =>
       /\ lastCheck.code = "RATE_LIMIT_EXCEEDED"
       /\ lastCheck.statusCode = 429
       /\ StoresUntouched
  /\ (Answered /\ lastCheck.allowed /\ lastCheck.tool \notin TOOL_NAMES) =>
       /\ lastCheck.code = "UNKNOWN_TOOL"
       /\ lastCheck.statusCode = 400
       /\ StoresUntouched
  /\ (Answered /\ lastCheck.code = "none") =>
       /\ lastCheck.allowed
       /\ lastCheck.tool \in TOOL_NAMES
       /\ lastCheck.thrown = "none"
  /\ ResidualIsInternal

\* An admitted call named an unknown operation and got UNKNOWN_TOOL, while
\* an admitted call to one of the six is still in the window.
C26_Witness ==
  /\ lastCheck.allowed
  /\ lastCheck.tool \notin TOOL_NAMES
  /\ lastCheck.code = "UNKNOWN_TOOL"
  /\ lastCheck.at = now
  /\ \E j \in 1..Len(admitted) : admitted[j][1] \in TOOL_NAMES

----------------------------------------------------------------------------
(* Properties of get_status *)

StatusDone(r) == req[r].tool = "get_status" /\ req[r].pc = "done"

\* The entries of the layers in a get_status answer.
Entries(r) == {req[r].results[k] : k \in 1..Len(req[r].results)}

LayerTools == {"remember", "recall", "query_layer"}

\* C27: when a layer's file is missing or cannot be read, get_status
\* reports that layer as missing or error and the health as degraded; the
\* health is healthy only when all six layers are connected; and a save,
\* recall or query_layer that meets no failure on its own layer succeeds
\* whatever the state of the other layers.
C27_DegradedButServing ==
  /\ \A r \in Reqs :
       StatusDone(r) =>
         /\ req[r].status = "ok"
         /\ {e.layer : e \in Entries(r)} = MEMORY_LAYERS
         /\ Len(req[r].results) = Cardinality(MEMORY_LAYERS)
         /\ \A e \in Entries(r) :
              /\ ~e.existed => e.status = "missing"
              /\ (e.existed /\ ~(e.opened /\ e.counted)) => e.status = "error"
              /\ e.status = "connected" => (e.existed /\ e.opened /\ e.counted)
              /\ e.status # "connected" => req[r].health = "degraded"
         /\ req[r].health \in {"healthy", "degraded"}
         /\ req[r].health = "healthy" => \A e \in Entries(r) : e.status = "connected"
  /\ \A r \in Reqs :
       ( /\ req[r].pc = "done"
         /\ req[r].tool \in LayerTools
         /\ ~req[r].faulted
         /\ req[r].code # "VALIDATION_ERROR" ) => req[r].status = "ok"

\* get_status answered degraded with a layer missing, that layer is still
\* not open, and a save on another layer succeeded.
C27_Witness ==
  \E r, s \in Reqs :
    /\ StatusDone(r)
    /\ req[r].health = "degraded"
    /\ req[s].pc = "done" /\ req[s].tool = "remember" /\ req[s].status = "ok"
    /\ \E e \in Entries(r) :
         /\ e.status = "missing"
         /\ e.layer # req[s].layer
         /\ ~readConnections[e.layer]
         /\ ~ReadFile(e.layer).exists

----------------------------------------------------------------------------
(* Properties of the layer store *)

\* The row is the one a previous run left in the file.
LeftByPreviousRun(row) ==
  /\ row.id = OldRow.id
  /\ row.timestamp = OldRow.timestamp
  /\ row.content = OldRow.content
  /\ row.importance = OldRow.importance

\* The row after the back-fill of the additive migration.
BackFilled(row) ==
  [row EXCEPT !.last_accessed = <<row.timestamp>>,
              !.effective_importance = <<row.importance>>,
              !.access_count = 0]

\* C28: opening a layer store, once or again, loses and alters no row, and
\* the rows that were there before the migration are back-filled with
\* last_accessed = timestamp, effective_importance = importance and
\* access_count = 0.
C28_OpenedStoreIsBackFilled ==
  \A layer \in MEMORY_LAYERS :
    (readConnections[layer] /\ writeConnections[layer]) =>
      \A k \in 1..Len(WRITE_PATHS) :
        \A row \in FileAt(WRITE_PATHS[k], layer).rows :
          LeftByPreviousRun(row) => row = BackFilled(OldRow)

----------------------------------------------------------------------------
(* Properties of the decay engine *)

\* The rows of a layer that a sweep can select.
Eligible(layer) == {row \in ReadFile(layer).rows : sweepSelectable(row)}

\* The size of the batch a sweep selects in a layer.
BatchSize(layer) ==
  IF Cardinality(Eligible(layer)) < SWEEP_BATCH_SIZE
    THEN Cardinality(Eligible(layer)) ELSE SWEEP_BATCH_SIZE

\* The step is a runSweep call.
SweepStep == ticks'.fired # ticks.fired

\* C31: a sweep in which sweepLayer throws for some layers still sweeps
\* every other layer that is open (a full batch of each), counts as a sweep,
\* leaves the flag cleared, and a tick that fires after a sweep with a
\* failed layer sweeps again.
C31_SweepSurvivesLayerFailure ==
  [][SweepStep =>
       /\ ~sweepRunning'
       /\ stats'.totalSweeps = stats.totalSweeps + 1
       /\ engineLog'.failed \cup engineLog'.returned = MEMORY_LAYERS
       /\ \A layer \in MEMORY_LAYERS \ engineLog'.failed :
            readConnections[layer] =>
              Cardinality({e \in swept' : e[1] = layer}) = BatchSize(layer)]_vars

\* The first layer's sweepLayer threw in the latest sweep, and the same sweep
\* updated a row of a later layer and cleared the flag.
C31_Witness ==
  /\ LayerOrder[1] \in engineLog.failed
  /\ \E e \in swept : LayerIndex(e[1]) > 1
  /\ stats.totalSweeps >= 1
  /\ ~sweepRunning

\* The row with this id in a set of rows.
RowOf(rows, id) == CHOOSE row \in rows : row.id = id

\* C32: a sweep that completes in a layer leaves no row of the layer with a
\* NULL effective_importance that had one before the sweep.
C32_SweepFillsNull ==
  [][SweepStep =>
       \A layer \in engineLog'.returned :
         readConnections[layer] =>
           \A row \in ReadFile(layer).rows :
             row.effective_importance = NULL =>
               RowOf(ReadFile(layer).rows', row.id).effective_importance # NULL]_vars

----------------------------------------------------------------------------
(* Properties of a denied request *)

\* The timestamps of a list, as a set.
Stamps(timestamps) == {timestamps[k] : k \in 1..Len(timestamps)}

\* The step is the dispatch of a request that the limiter denies.
DeniedStep ==
  /\ now' = now
  /\ nextCleanup' = nextCleanup
  /\ ~lastCheck'.allowed
  /\ lastCheck'.at = now
  /\ ~checkLimit(lastCheck'.tool, now).allowed

\* C33: the dispatch of a denied request ends with the rate-limit error
\* without reaching the switch, leaves the stores and the handles as they
\* were, and adds no timestamp to the global list or to any tool's list
\* (expired ones may be dropped), so the decision for any tool at that time
\* is the same after the denial as before it.
C33_DenialConsumesNothing ==
  [][DeniedStep =>
       /\ lastCheck'.thrown = "RateLimitError"
       /\ UNCHANGED storeVars
       /\ admitted' = admitted
       /\ Len(globalRequests') <= Len(globalRequests)
       /\ Stamps(globalRequests') \subseteq Stamps(globalRequests)
       /\ \A tool \in Tools :
            /\ Len(toolRequests'[tool]) <= Len(toolRequests[tool])
            /\ Stamps(toolRequests'[tool]) \subseteq Stamps(toolRequests[tool])
            /\ checkLimit(tool, now)' = checkLimit(tool, now)]_vars

\* A request to a tool was denied on the tool's cap while the global list
\* still had room, and the list of the tool holds exactly the admitted calls.
C33_Witness ==
  /\ Denied
  /\ lastCheck.at = now
  /\ lastCheck.reason = "tool"
  /\ Len(globalRequests) < GLOBAL_MAX_REQUESTS
  /\ Len(toolRequests[lastCheck.tool]) = AdmittedTo(lastCheck.tool, now)
  /\ Len(toolRequests[lastCheck.tool]) > 0

----------------------------------------------------------------------------
(* Properties of touchMemories *)

----------------------------------------------------------------------------
(* Properties of the rows *)

\* The step is a touchMemories call.
TouchStep == engineLog'.touches # engineLog.touches

\* The columns that no operation changes once the row is stored (the model
\* keeps no metadata column).
SameRecord(old, new) ==
  /\ new.id = old.id
  /\ new.timestamp = old.timestamp
  /\ new.content = old.content
  /\ new.context = old.context
  /\ new.importance = old.importance
  /\ new.emotional_intensity = old.emotional_intensity

\* What a step may do to the rows of one file of a layer.
RowsKept(old, new) ==
  /\ \A row \in old :
       \E kept \in new :
         /\ SameRecord(row, kept)
         /\ \A other \in new : other.id = row.id => other = kept
         /\ SweepStep => /\ kept.last_accessed = row.last_accessed
                         /\ kept.access_count = row.access_count
         /\ TouchStep => kept.effective_importance = row.effective_importance
         /\ (~SweepStep /\ ~TouchStep) => kept = row
  /\ \A added \in new :
       (\A row \in old : row.id # added.id) =>
         /\ ~SweepStep /\ ~TouchStep
         /\ \A row \in old : row.id < added.id

\* C35: no step deletes a row or changes its id, timestamp, content,
\* context, importance or emotional_intensity, in the truth store or in the
\* cache; a sweep changes at most effective_importance, a touch at most
\* last_accessed and access_count, any other step changes no stored row, and
\* a row that a save adds gets an id above every id of its file.
C35_RowsAreStable ==
  [][\A layer \in MEMORY_LAYERS :
       /\ RowsKept(truthFile[layer].rows, truthFile'[layer].rows)
       /\ RowsKept(cacheFile[layer].rows, cacheFile'[layer].rows)]_vars

\* A layer whose truth store holds a row that a sweep has decayed, a row
\* that was touched, and a row that a save added to the rows it started with.
C35_Witness ==
  \E layer \in MEMORY_LAYERS :
    \E decayedRow, touchedRow, savedRow \in truthFile[layer].rows :
      /\ decayedRow.effective_importance # NULL
      /\ decayedRow.effective_importance[1] < decayedRow.importance
      /\ touchedRow.access_count > 0
      /\ savedRow.importance = 700
      /\ \A row \in truthFile[layer].rows : row.id <= savedRow.id
      /\ stats.totalSweeps > 0

----------------------------------------------------------------------------
(* Properties of a failed save *)

\* The save ended with an error envelope.
SaveFailed(r) == SaveDone(r) /\ req[r].status = "error"

\* C36: a save that ended with a validation error or with a database error
\* has executed its INSERT on no store (so the rows of the truth store and of
\* the cache are the ones other operations left), and a save that met no
\* failure of its own and passed validation succeeds, whatever failed before.
C36_FailedSaveWritesNothing ==
  \A r \in Reqs :
    /\ SaveFailed(r) => /\ req[r].truthWrite # "ok"
                        /\ req[r].cacheWrite # "ok"
    /\ (SaveDone(r) /\ ~req[r].faulted
          /\ req[r].code # handleError("ValidationError").code) => req[r].status = "ok"

----------------------------------------------------------------------------
(* Properties of the shutdown *)

\* The order the handler's statements are to be done in.
StopOrder ==
  <<"decayEngine.stop", "rateLimiter.stop", "logger.shutdown", "dbManager.closeAll",
    "process.exit">>

\* The rows of the stores.
StoredRows == [layer \in MEMORY_LAYERS |-> <<truthFile[layer].rows, cacheFile[layer].rows>>]

\* What holds of the handler in a state: the statements done so far are the
\* first ones of the order; no handle is closed before both timers are
\* cleared and the audit buffer is flushed; the process exits with code 0,
\* after every statement, with every handle closed.
StoppedInOrder ==
  /\ Len(shutdown.done) <= Len(StopOrder)
  /\ shutdown.done = SubSeq(StopOrder, 1, Len(shutdown.done))
  /\ shutdown.closed # {} =>
       /\ ~shutdown.sweepInterval
       /\ ~shutdown.cleanupInterval
       /\ Len(shutdown.done) >= 3
  /\ shutdown.pc = "exited" =>
       /\ shutdown.exitCode = <<0>>
       /\ shutdown.done = StopOrder
       /\ \A k \in 1..Len(closeOrder) : closeOrder[k] \in shutdown.closed
       /\ \A layer \in MEMORY_LAYERS : ~readConnections[layer] /\ ~writeConnections[layer]

----------------------------------------------------------------------------
(* Properties of the batches of a sweep *)

\* The sweeps that visit every selectable row of a layer once when each
\* takes SWEEP_BATCH_SIZE rows that the sweeps before it left out.
SweepsToCover(layer) ==
  (Cardinality(Eligible(layer)) + SWEEP_BATCH_SIZE - 1) \div SWEEP_BATCH_SIZE

\* C38: once as many sweeps have completed as it takes to visit the
\* selectable rows of a layer in batches, every selectable row of the layer
\* has had its effective_importance recomputed by one of them (here for
\* runs in which no storage call failed and nothing was touched).
C38_EveryRowIsSwept ==
  \A layer \in MEMORY_LAYERS :
    ( /\ faults = 0
      /\ engineLog.touches = 0
      /\ readConnections[layer]
      /\ stats.totalSweeps >= SweepsToCover(layer) )
    => \A row \in Eligible(layer) : <<layer, row.id>> \in engineLog.ever

----------------------------------------------------------------------------
(* Properties of a retry after a denial *)

\* The decision a retry of the denied request gets when it is issued
\* retryAfterMs after the denial with nothing admitted in between: the two
\* lists are the ones the denial left.
RetryDecision == checkLimit(lastCheck.tool, lastCheck.at + lastCheck.retryAfterMs)

\* C39: after a request is denied with retryAfterMs = r at time t, the same
\* request issued at time t + r, with no other request admitted in between,
\* is admitted.
C39_RetryIsAdmitted ==
  (Denied /\ lastCheck.at = now) => RetryDecision.allowed

----------------------------------------------------------------------------
(* Specification of the decay engine next to default recalls *)

\* The query of the recalls: it matches every row of EngineRows.
FadeQueries == {<<"a">>}

\* Every layer holds one fading row of a migrated table.
PreviousFadeRuns(layer) ==
  {[exists |-> TRUE, rows |-> {EngineRow(LayerIndex(layer))}]}

\* The server after main() has opened every layer without a failure, the
\* cache seeded from the truth store.
InitFade ==
  /\ USE_RAM \in BOOLEAN
  /\ truthFile \in [MEMORY_LAYERS -> UNION {PreviousFadeRuns(layer) : layer \in MEMORY_LAYERS}]
  /\ \A layer \in MEMORY_LAYERS : truthFile[layer] \in PreviousFadeRuns(layer)
  /\ cacheFile = IF USE_RAM THEN truthFile ELSE [layer \in MEMORY_LAYERS |-> MissingFile]
  /\ readConnections = [layer \in MEMORY_LAYERS |-> TRUE]
  /\ writeConnections = [layer \in MEMORY_LAYERS |-> TRUE]
  /\ lastRowid = [path \in Paths |-> [layer \in MEMORY_LAYERS |-> 0]]
  /\ copied = [layer \in MEMORY_LAYERS |-> TRUE]
  /\ initIdx = Len(LayerOrder)
  /\ req = [r \in Reqs |-> IdleReq]
  /\ faults = 0
  /\ now = 1
  /\ InitLimiter
  /\ InitDecayEngine
  /\ InitAnalyzers
  /\ InitCurve
  /\ InitShutdown

NextFade ==
  \/ NextEngine
  \/ \E r \in Reqs : RecallStart(r, FadeQueries, {FALSE})
  \/ \E r \in Reqs : RecallScan(r)

SpecFade == InitFade /\ [][NextFade]_vars

----------------------------------------------------------------------------
(* Properties of fading records *)

\* A step in which a sweep ran to its end (a dropped tick stores nothing).
SweepRan == stats'.totalSweeps # stats.totalSweeps

\* No touch has reached the record yet: every touch counts in access_count.
NeverTouched(layer, id) == RowOf(truthFile[layer].rows, id).access_count = 0

\* A sweep stores, for a record no touch has reached, a value that is not
\* above the stored one.
SweepNeverRaises ==
  SweepRan =>
    \A layer \in MEMORY_LAYERS : \A old \in truthFile[layer].rows :
      (NeverTouched(layer, old.id) /\ old.effective_importance # NULL) =>
        LET new == RowOf(truthFile'[layer].rows, old.id)
        IN /\ new.effective_importance # NULL
           /\ new.effective_importance[1] <= old.effective_importance[1]

\* A sweep that selects a touched record stores the value computed from the
\* time of the touch, which the truth store holds in last_accessed.
SweepFollowsTouch ==
  SweepRan =>
    \A layer \in MEMORY_LAYERS : \A old \in truthFile[layer].rows :
      (~NeverTouched(layer, old.id) /\ <<layer, old.id>> \in swept') =>
        RowOf(truthFile'[layer].rows, old.id).effective_importance =
          <<calculateEffectiveImportance(old.importance, old.last_accessed, now)>>

\* A default recall returns no record that is stored below the threshold
\* and that no touch has reached.
HiddenStaysHidden ==
  \A r \in Reqs :
    (RecallDone(r) /\ req[r].status = "ok" /\ ~req[r].include_decayed) =>
      \A p \in req[r].seen :
        (<<p[1], p[2].id>> \in ReturnedIds(r) /\ NeverTouched(p[1], p[2].id)) =>
          Visible(p[2])

\* C40: for a record that is not touched the values stored by successive
\* sweeps do not increase; a record stored below the threshold is not
\* returned by a default (include_decayed = false) recall unless it was
\* touched first; and the sweep after a touch at time a stores the value
\* computed from last_accessed = a.
C40_FadingIsOneWay ==
  /\ []HiddenStaysHidden
  /\ [][SweepNeverRaises /\ SweepFollowsTouch]_vars

\* The two parts about sweeps, one by one.
EverySweepNeverRaises == [][SweepNeverRaises]_vars
EverySweepFollowsTouch == [][SweepFollowsTouch]_vars

====
